---- MODULE Spec2Model ----
(***************************************************************************)
(* Access control, invite workflow and project/task stores of the          *)
(* CyberGarden3 backend (FastAPI + SQLAlchemy), modelled as a state        *)
(* machine over the relational tables.                                     *)
(*                                                                         *)
(* Tables are sets of rows keyed by their integer primary key.  A handler  *)
(* is a coroutine: it gives up the event loop at every await of a database *)
(* call, and other requests run in between.  Each action of the model is   *)
(* the stretch of a handler up to and including one statement the database *)
(* executes (a SELECT, the flush and COMMIT of the pending changes, the    *)
(* SELECT of a refresh); a handler that awaits the database n times is n   *)
(* actions, and between them the coroutine waits in reqs with its          *)
(* arguments and the objects it holds.                                     *)
(***************************************************************************)
EXTENDS Integers, FiniteSets, Sequences, Bags, TLC

(***************************************************************************)
(* Bounds of the model.                                                    *)
(***************************************************************************)
NumUsers == 2
MaxWorkspaces == 1
\* workspaces created where the store of workspaces is studied by itself
MaxListed == 3
MaxProjects == 1
MaxTasks == 2
\* coroutines suspended at one time where requests run concurrently
MaxRequests == 2
\* cap on the values the id sequence of project_users hands out: a request
\* that would insert a row is not taken on once the sequence, counting the
\* inserts already under way, has reached it
MaxRows == 3

UserIds == 1..NumUsers
WorkspaceIds == 1..MaxWorkspaces
ProjectIds == 1..MaxProjects
TaskIds == 1..MaxTasks

\* Python None in an integer column or payload field.
NoneId == -1
\* Python None where a string is expected; the text "None" is a string like
\* any other (it is the value of TaskPriority.NONE).
NoneStr == "<None>"

\* access levels named by the ProjectUser.access_level column comment
AccessLevels == {"admin", "member", "viewer", "invited"}

\* HTTP status codes raised or returned by the handlers
HTTP_200_OK == 200
HTTP_201_CREATED == 201
HTTP_204_NO_CONTENT == 204
HTTP_400_BAD_REQUEST == 400
HTTP_401_UNAUTHORIZED == 401
HTTP_403_FORBIDDEN == 403
HTTP_404_NOT_FOUND == 404
HTTP_500_INTERNAL == 500

VARIABLES
    workspaces,     \* rows of table workspaces: [id, name, created_by]
    projects,       \* rows of table projects: [id, name, workspace_id, created_by]
    project_users,  \* rows of table project_users:
                    \*   [id, project_id, user_id, access_level]
    tasks,          \* rows of table tasks
    reminders,      \* rows of table reminders: [id, task_id, reminder_time]
    seq,            \* last value handed out by each table's id sequence
    reqs,           \* bag of the coroutines suspended at an await
    last,           \* the outcome of the call the latest step completed,
                    \*   NoOutcome when the step completed none
    users,          \* rows of table users: [id, email, password]
    workspace_users \* rows of table workspace_users

vars == <<workspaces, projects, project_users, tasks, reminders, seq, reqs, last, users,
          workspace_users>>

\* Email addresses are told apart by number; user u registered address u,
\* one address belongs to nobody.
Emails == 1..(NumUsers + 1)

\* password hashes as stored: the hash of a password is a value of its own
hash_password(password) == <<"hash", password>>

User(id, email, password) == [id |-> id, email |-> email, password |-> password]

InitUsers == {User(u, u, hash_password("pw")) : u \in UserIds}

\* the row a foreign key to users.id asks for
UserExists(u) == \E x \in users : x.id = u

(***************************************************************************)
(* Rows and queries.                                                       *)
(***************************************************************************)
\* id 0 stands for the key of an object that has not been flushed
ProjectUser(id, p, u, l) ==
    [id |-> id, project_id |-> p, user_id |-> u, access_level |-> l]

\* the rows of a project_users table for project p and user u
SelectRows(table, p, u) == {r \in table : r.project_id = p /\ r.user_id = u}

\* SELECT ... FROM project_users WHERE project_id = p AND user_id = u
SelectProjectUser(p, u) == SelectRows(project_users, p, u)

\* the same query with the extra filter access_level = "invited"
SelectInvite(p, u) == {r \in SelectProjectUser(p, u) : r.access_level = "invited"}

\* Result.scalar_one_or_none(): None for no row, the row for one row,
\* MultipleResultsFound (an unhandled exception) for more than one.
MultipleResultsFound == "MultipleResultsFound"

get_project_by_id(p) == {x \in projects : x.id = p}

ProjectExists(p) == get_project_by_id(p) # {}

TaskById(t) == CHOOSE x \in tasks : x.id = t

TaskExists(t) == \E x \in tasks : x.id = t

(***************************************************************************)
(* The unit of work of a session.  The session of a request holds the      *)
(* objects its queries loaded; a flush writes them by primary key.         *)
(***************************************************************************)
StaleDataError == "StaleDataError"
InvalidRequestError == "InvalidRequestError"
IntegrityError == "IntegrityError"

\* the outcome of a flush and commit: the exception raised ("" for none) and
\* the table as committed (unchanged after a rollback)
Written(exc, table) == [exc |-> exc, table |-> table]

\* the row of a table with primary key id: {} when there is none
RowById(table, id) == {x \in table : x.id = id}

\* UPDATE ... SET <the attributes whose value differs from the loaded one>
\* WHERE id = loaded.id.  No statement is emitted for an object none of whose
\* attributes changed; a statement that matches no row raises StaleDataError.
FlushUpdate(table, loaded, object) ==
    LET dirty == {f \in DOMAIN loaded : object[f] # loaded[f]}
        current == RowById(table, loaded.id)
    IN  CASE dirty = {} -> Written("", table)
          [] dirty # {} /\ current = {} -> Written(StaleDataError, table)
          [] OTHER ->
                 LET row == CHOOSE x \in current : TRUE
                 IN  Written("", (table \ current)
                                   \cup {[f \in DOMAIN row |->
                                             IF f \in dirty THEN object[f] ELSE row[f]]})

\* DELETE ... WHERE id = loaded.id: a statement that matches no row is a
\* warning, not an exception
FlushDelete(table, loaded) == Written("", table \ RowById(table, loaded.id))

\* session.refresh(object): SELECT ... WHERE id = object.id; a row that is
\* gone raises InvalidRequestError
Refresh(table, id) == IF RowById(table, id) = {} THEN InvalidRequestError ELSE ""

(***************************************************************************)
(* routers/dependencies/permissions.py                                     *)
(***************************************************************************)
\* select(ProjectUser.access_level).where(...) then scalar_one_or_none()
ScalarAccessLevel(table, p, u) ==
    LET res == SelectRows(table, p, u)
    IN  CASE Cardinality(res) = 0 -> NoneStr
          [] Cardinality(res) = 1 -> (CHOOSE r \in res : TRUE).access_level
          [] OTHER -> MultipleResultsFound

get_user_project_access_level(p, u) == ScalarAccessLevel(project_users, p, u)

check_project_owner(p, u) ==
    LET access_level == get_user_project_access_level(p, u)
    IN  CASE access_level = MultipleResultsFound -> HTTP_500_INTERNAL
          [] access_level = "admin" -> HTTP_200_OK
          [] OTHER -> HTTP_403_FORBIDDEN

check_project_editor_or_owner_viewer_passes(p, u) ==
    LET access_level == get_user_project_access_level(p, u)
    IN  CASE access_level = MultipleResultsFound -> HTTP_500_INTERNAL
          [] access_level \in {"admin", "member", "viewer"} -> HTTP_200_OK
          [] OTHER -> HTTP_403_FORBIDDEN

check_project_editor_or_owner(p, u) ==
    LET access_level == get_user_project_access_level(p, u)
    IN  CASE access_level = MultipleResultsFound -> HTTP_500_INTERNAL
          [] access_level \in {"admin", "member"} -> HTTP_200_OK
          [] OTHER -> HTTP_403_FORBIDDEN

check_project_access_none_passes(p, u) ==
    IF ~ProjectExists(p) THEN HTTP_404_NOT_FOUND
    ELSE LET access_level == get_user_project_access_level(p, u)
         IN  CASE access_level = MultipleResultsFound -> HTTP_500_INTERNAL
               [] access_level \in {"admin", "member", "viewer", NoneStr} -> HTTP_200_OK
               [] OTHER -> HTTP_403_FORBIDDEN

\* check_project_access past its project lookup: the level is read and
\* decides
check_project_access_level(p, u) ==
    LET access_level == get_user_project_access_level(p, u)
    IN  CASE access_level = MultipleResultsFound -> HTTP_500_INTERNAL
          [] access_level \in {"admin", "member", "viewer"} -> HTTP_200_OK
          [] OTHER -> HTTP_403_FORBIDDEN

\* the gate as a function of one state of the database; a handler that
\* passes through it reads the project and the level in two statements
check_project_access(p, u) ==
    IF ~ProjectExists(p) THEN HTTP_404_NOT_FOUND
    ELSE check_project_access_level(p, u)

check_project_viewer_or_higher(p, u) ==
    LET access_level == get_user_project_access_level(p, u)
    IN  CASE access_level = MultipleResultsFound -> HTTP_500_INTERNAL
          [] access_level \in {"admin", "member", "viewer"} -> HTTP_200_OK
          [] OTHER -> HTTP_403_FORBIDDEN

\* check_task_completion_permission past db.get: the level in the project
\* of the loaded task is read and decides
check_task_completion_permission_level(task, u) ==
    LET access_level == get_user_project_access_level(task.project_id, u)
    IN  CASE access_level = MultipleResultsFound -> HTTP_500_INTERNAL
          [] access_level = "admin" -> HTTP_200_OK
          [] access_level = "member" -> HTTP_200_OK
          [] access_level = "viewer" /\ task.assigned_to = u -> HTTP_200_OK
          [] OTHER -> HTTP_403_FORBIDDEN

\* the gate as a function of one state of the database; a handler that
\* passes through it reads the task and the level in two statements
check_task_completion_permission(t, u) ==
    IF ~TaskExists(t) THEN HTTP_404_NOT_FOUND
    ELSE check_task_completion_permission_level(TaskById(t), u)

check_workspace_owner(w, u) ==
    LET found == {x \in workspaces : x.id = w}
    IN  IF found = {} THEN HTTP_404_NOT_FOUND
        ELSE IF (CHOOSE x \in found : TRUE).created_by # u THEN HTTP_403_FORBIDDEN
        ELSE HTTP_200_OK

(***************************************************************************)
(* The record of the last completed call: the operation, its caller and    *)
(* arguments, the exception that ended it ("" when it returned), the HTTP  *)
(* status (0 for a crud function called outside a route), what the call    *)
(* was given or found (result) and the TaskResponse objects it returned.   *)
(***************************************************************************)
Outcome(op, caller, p, u, t, exc, status, result) ==
    [op |-> op, caller |-> caller, project_id |-> p, user_id |-> u,
     task_id |-> t, exc |-> exc, status |-> status, result |-> result,
     response |-> {}]

\* the outcome of a call that returned TaskResponse objects
Responded(outcome, response) == [outcome EXCEPT !.response = response]

\* the latest step completed no call
NoOutcome == Outcome("", 0, 0, 0, 0, "", 0, {})

\* what the stretch of a crud function up to its next await yields: the
\* exception raised ("" for none), the HTTP status it carries, the await it
\* is suspended at ("" when it has returned or raised), the rows its query
\* loaded and the objects the session holds for the flush
Result(exc, status, pc, loaded, object) ==
    [exc |-> exc, status |-> status, pc |-> pc, loaded |-> loaded, object |-> object]

(***************************************************************************)
(* Coroutines.  A suspended coroutine is its operation, the await it is    *)
(* suspended at, its caller and arguments, the rows it loaded (as loaded), *)
(* the objects it holds as it changed them (an object with id 0 has not    *)
(* been flushed; an empty set after a loaded row is a pending delete), the *)
(* status its route answers on success and the payload it was called with. *)
(***************************************************************************)
Request(op, pc, caller, p, u, t, status, loaded, object, data) ==
    [op |-> op, pc |-> pc, caller |-> caller, project_id |-> p, user_id |-> u,
     task_id |-> t, status |-> status, loaded |-> loaded, object |-> object,
     data |-> data]

\* the outcome of a coroutine that ends: status is the status of the route it
\* serves (0 for a crud function called outside a route), and an exception
\* no handler catches is answered 500
Ended(r, exc, result) ==
    Outcome(r.op, r.caller, r.project_id, r.user_id, r.task_id, exc,
            IF exc = "" \/ r.status = 0 THEN r.status ELSE HTTP_500_INTERNAL, result)

Running(r) == BagIn(r, reqs)

\* the event loop takes on a call only below the bound on suspended
\* coroutines
Idle == BagCardinality(reqs) < MaxRequests

\* the call returned or raised before it was ever suspended
Return(outcome) == Idle /\ last' = outcome /\ UNCHANGED reqs

\* the call is suspended at its first await; no response is produced
Suspend(r) == Idle /\ reqs' = reqs (+) SetToBag({r}) /\ last' = NoOutcome

\* the coroutine r runs on to its next await, where it is r2
Continue(r, r2) ==
    reqs' = (reqs (-) SetToBag({r})) (+) SetToBag({r2}) /\ last' = NoOutcome

\* the coroutine r returns or raises
Complete(r, outcome) == reqs' = reqs (-) SetToBag({r}) /\ last' = outcome

\* the number of coroutines of the operations ops suspended at pc: those
\* about to draw a value from an id sequence
Pending(ops, pc) ==
    LET S == {r \in BagToSet(reqs) : r.op \in ops /\ r.pc = pc}
    IN  BagCardinality([r \in S |-> CopiesIn(r, reqs)])

\* the object of a coroutine that holds one
ObjectOf(r) == CHOOSE o \in r.object : TRUE

LoadedOf(r) == CHOOSE o \in r.loaded : TRUE

(***************************************************************************)
(* crud/invites.py                                                         *)
(***************************************************************************)
\* db.add(ProjectUser(...)); await db.commit(): the INSERT takes the next
\* value of the id sequence; it violates a foreign key when the project or
\* the user does not exist, and is rolled back
InsertProjectUser(object) ==
    IF ~ProjectExists(object.project_id) \/ ~UserExists(object.user_id)
    THEN Written(IntegrityError, project_users)
    ELSE Written("", project_users
                       \cup {[object EXCEPT !.id = seq.project_users + 1]})

send_invite_to_project_nocheck(p, u) ==
    Result("", HTTP_200_OK, "commit", {}, {ProjectUser(0, p, u, "invited")})

\* up to await db.commit()
send_invite_to_project(p, u) ==
    LET existing == SelectProjectUser(p, u)
    IN  CASE Cardinality(existing) > 1 ->
                 Result(MultipleResultsFound, HTTP_500_INTERNAL, "", {}, {})
          [] Cardinality(existing) = 1 ->
                 Result("HTTPException", HTTP_400_BAD_REQUEST, "", {}, {})
          [] OTHER -> Result("", HTTP_200_OK, "commit", {}, {ProjectUser(0, p, u, "invited")})

\* as accept_project_invite, but the accepted row gets the level viewer
accept_project_invite_viewer(p, u) ==
    LET invite == SelectInvite(p, u)
    IN  CASE Cardinality(invite) > 1 ->
                 Result(MultipleResultsFound, HTTP_500_INTERNAL, "", {}, {})
          [] Cardinality(invite) = 0 ->
                 Result("HTTPException", HTTP_404_NOT_FOUND, "", {}, {})
          [] OTHER -> Result("", HTTP_200_OK, "commit", invite,
                             {[x EXCEPT !.access_level = "viewer"] : x \in invite})

accept_project_invite_anyrow(p, u) ==
    LET found == SelectProjectUser(p, u)
    IN  CASE Cardinality(found) > 1 ->
                 Result(MultipleResultsFound, HTTP_500_INTERNAL, "", {}, {})
          [] Cardinality(found) = 0 ->
                 Result("HTTPException", HTTP_404_NOT_FOUND, "", {}, {})
          [] OTHER -> Result("", HTTP_200_OK, "commit", found,
                             {[x EXCEPT !.access_level = "member"] : x \in found})

\* up to await db.commit(): invite.access_level = "member" on the loaded row
accept_project_invite(p, u) ==
    LET invite == SelectInvite(p, u)
    IN  CASE Cardinality(invite) > 1 ->
                 Result(MultipleResultsFound, HTTP_500_INTERNAL, "", {}, {})
          [] Cardinality(invite) = 0 ->
                 Result("HTTPException", HTTP_404_NOT_FOUND, "", {}, {})
          [] OTHER -> Result("", HTTP_200_OK, "commit", invite,
                             {[x EXCEPT !.access_level = "member"] : x \in invite})

decline_project_invite_anyrow(p, u) ==
    LET found == SelectProjectUser(p, u)
    IN  CASE Cardinality(found) > 1 ->
                 Result(MultipleResultsFound, HTTP_500_INTERNAL, "", {}, {})
          [] Cardinality(found) = 0 ->
                 Result("HTTPException", HTTP_404_NOT_FOUND, "", {}, {})
          [] OTHER -> Result("", HTTP_200_OK, "commit", found, {})

\* up to await db.commit(); await db.delete(invite) marks the loaded row and
\* reaches no database (ProjectUser has no cascading relationship to load)
decline_project_invite(p, u) ==
    LET invite == SelectInvite(p, u)
    IN  CASE Cardinality(invite) > 1 ->
                 Result(MultipleResultsFound, HTTP_500_INTERNAL, "", {}, {})
          [] Cardinality(invite) = 0 ->
                 Result("HTTPException", HTTP_404_NOT_FOUND, "", {}, {})
          [] OTHER -> Result("", HTTP_200_OK, "commit", invite, {})

(***************************************************************************)
(* crud/project_user.py                                                    *)
(***************************************************************************)
\* up to await db.commit(); existing.scalar() takes the first row, however
\* many there are
create_project_user(p, u, access_level) ==
    LET existing == SelectProjectUser(p, u)
    IN  IF Cardinality(existing) > 0
        THEN Result("ValueError", 0, "", {}, {})
        ELSE Result("", 0, "commit", {}, {ProjectUser(0, p, u, access_level)})

\* up to await db.commit(): project_user.access_level = new_role
update_project_user_role(p, u, new_role) ==
    LET project_user == SelectProjectUser(p, u)
    IN  CASE Cardinality(project_user) > 1 -> Result(MultipleResultsFound, 0, "", {}, {})
          [] Cardinality(project_user) = 0 -> Result("ValueError", 0, "", {}, {})
          [] OTHER -> Result("", 0, "commit", project_user,
                             {[x EXCEPT !.access_level = new_role] : x \in project_user})

\* up to await db.commit(); returns False (no exception) when the row is
\* missing.  await db.delete(project_user) reaches no database.
remove_user_from_project(p, u) ==
    LET project_user == SelectProjectUser(p, u)
    IN  CASE Cardinality(project_user) > 1 -> Result(MultipleResultsFound, 0, "", {}, {})
          [] Cardinality(project_user) = 0 -> Result("", 0, "", {}, {})
          [] OTHER -> Result("", 0, "commit", project_user, {})

(***************************************************************************)
(* routers/api/invites.py: the three routes call the crud function and     *)
(* nothing else; accept and decline act for the authenticated user.  Each  *)
(* is two statements: the SELECT, and the flush and COMMIT.                *)
(***************************************************************************)
send_invite(caller, p, u) ==
    \E res \in {send_invite_to_project(p, u)} :
        /\ IF res.pc = ""
           THEN Return(Outcome("send_invite", caller, p, u, 0, res.exc, res.status, {}))
           ELSE /\ seq.project_users + Pending({"send_invite", "create_project_user"}, "commit") < MaxRows
                /\ Suspend(Request("send_invite", res.pc, caller, p, u, 0, res.status,
                                   res.loaded, res.object, {}))
        /\ UNCHANGED <<workspaces, projects, project_users, tasks, reminders, seq, users,
                       workspace_users>>

\* await db.commit() of send_invite_to_project
send_invite_commit(r) ==
    /\ Running(r) /\ r.op = "send_invite" /\ r.pc = "commit"
    /\ \E written \in {InsertProjectUser(ObjectOf(r))} :
          /\ project_users' = written.table
          /\ Complete(r, Ended(r, written.exc, {}))
    /\ seq' = [seq EXCEPT !.project_users = @ + 1]
    /\ UNCHANGED <<workspaces, projects, tasks, reminders, users, workspace_users>>

accept_invite(caller, p) ==
    \E res \in {accept_project_invite(p, caller)} :
        /\ IF res.pc = ""
           THEN Return(Outcome("accept_invite", caller, p, caller, 0, res.exc,
                               res.status, {}))
           ELSE Suspend(Request("accept_invite", res.pc, caller, p, caller, 0,
                                res.status, res.loaded, res.object, {}))
        /\ UNCHANGED <<workspaces, projects, project_users, tasks, reminders, seq, users,
                       workspace_users>>

\* await db.commit() of accept_project_invite
accept_invite_commit(r) ==
    /\ Running(r) /\ r.op = "accept_invite" /\ r.pc = "commit"
    /\ \E written \in {FlushUpdate(project_users, LoadedOf(r), ObjectOf(r))} :
          /\ project_users' = written.table
          /\ Complete(r, Ended(r, written.exc, {}))
    /\ UNCHANGED <<workspaces, projects, tasks, reminders, seq, users, workspace_users>>

decline_invite(caller, p) ==
    \E res \in {decline_project_invite(p, caller)} :
        /\ IF res.pc = ""
           THEN Return(Outcome("decline_invite", caller, p, caller, 0, res.exc,
                               res.status, {}))
           ELSE Suspend(Request("decline_invite", res.pc, caller, p, caller, 0,
                                res.status, res.loaded, res.object, {}))
        /\ UNCHANGED <<workspaces, projects, project_users, tasks, reminders, seq, users,
                       workspace_users>>

\* await db.commit() of decline_project_invite
decline_invite_commit(r) ==
    /\ Running(r) /\ r.op = "decline_invite" /\ r.pc = "commit"
    /\ \E written \in {FlushDelete(project_users, LoadedOf(r))} :
          /\ project_users' = written.table
          /\ Complete(r, Ended(r, written.exc, {}))
    /\ UNCHANGED <<workspaces, projects, tasks, reminders, seq, users, workspace_users>>

(***************************************************************************)
(* Direct calls of the crud functions of crud/project_user.py.             *)
(***************************************************************************)
CreateProjectUser(p, u, access_level) ==
    \E res \in {create_project_user(p, u, access_level)} :
        /\ IF res.pc = ""
           THEN Return(Outcome("create_project_user", 0, p, u, 0, res.exc, res.status,
                               {}))
           ELSE /\ seq.project_users + Pending({"send_invite", "create_project_user"}, "commit") < MaxRows
                /\ Suspend(Request("create_project_user", res.pc, 0, p, u, 0,
                                   res.status, res.loaded, res.object, {}))
        /\ UNCHANGED <<workspaces, projects, project_users, tasks, reminders, seq, users,
                       workspace_users>>

\* await db.commit() of create_project_user: the object now carries its key
CreateProjectUserCommit(r) ==
    /\ Running(r) /\ r.op = "create_project_user" /\ r.pc = "commit"
    /\ \E written \in {InsertProjectUser(ObjectOf(r))} :
          /\ project_users' = written.table
          /\ IF written.exc # ""
             THEN Complete(r, Ended(r, written.exc, {}))
             ELSE Continue(r, [r EXCEPT !.pc = "refresh",
                                        !.object = {[ObjectOf(r) EXCEPT
                                                       !.id = seq.project_users + 1]}])
    /\ seq' = [seq EXCEPT !.project_users = @ + 1]
    /\ UNCHANGED <<workspaces, projects, tasks, reminders, users, workspace_users>>

\* await db.refresh(new_user)
CreateProjectUserRefresh(r) ==
    /\ Running(r) /\ r.op = "create_project_user" /\ r.pc = "refresh"
    /\ Complete(r, Ended(r, Refresh(project_users, ObjectOf(r).id), {}))
    /\ UNCHANGED <<workspaces, projects, project_users, tasks, reminders, seq, users,
                   workspace_users>>

UpdateProjectUserRole(p, u, new_role) ==
    \E res \in {update_project_user_role(p, u, new_role)} :
        /\ IF res.pc = ""
           THEN Return(Outcome("update_project_user_role", 0, p, u, 0, res.exc,
                               res.status, {}))
           ELSE Suspend(Request("update_project_user_role", res.pc, 0, p, u, 0,
                                res.status, res.loaded, res.object, {}))
        /\ UNCHANGED <<workspaces, projects, project_users, tasks, reminders, seq, users,
                       workspace_users>>

\* await db.commit() of update_project_user_role
UpdateProjectUserRoleCommit(r) ==
    /\ Running(r) /\ r.op = "update_project_user_role" /\ r.pc = "commit"
    /\ \E written \in {FlushUpdate(project_users, LoadedOf(r), ObjectOf(r))} :
          /\ project_users' = written.table
          /\ IF written.exc # ""
             THEN Complete(r, Ended(r, written.exc, {}))
             ELSE Continue(r, [r EXCEPT !.pc = "refresh"])
    /\ UNCHANGED <<workspaces, projects, tasks, reminders, seq, users, workspace_users>>

\* await db.refresh(project_user)
UpdateProjectUserRoleRefresh(r) ==
    /\ Running(r) /\ r.op = "update_project_user_role" /\ r.pc = "refresh"
    /\ Complete(r, Ended(r, Refresh(project_users, ObjectOf(r).id), {}))
    /\ UNCHANGED <<workspaces, projects, project_users, tasks, reminders, seq, users,
                   workspace_users>>

RemoveUserFromProject(p, u) ==
    \E res \in {remove_user_from_project(p, u)} :
        /\ IF res.pc = ""
           THEN Return(Outcome("remove_user_from_project", 0, p, u, 0, res.exc,
                               res.status, {}))
           ELSE Suspend(Request("remove_user_from_project", res.pc, 0, p, u, 0,
                                res.status, res.loaded, res.object, {}))
        /\ UNCHANGED <<workspaces, projects, project_users, tasks, reminders, seq, users,
                       workspace_users>>

\* await db.commit() of remove_user_from_project
RemoveUserFromProjectCommit(r) ==
    /\ Running(r) /\ r.op = "remove_user_from_project" /\ r.pc = "commit"
    /\ \E written \in {FlushDelete(project_users, LoadedOf(r))} :
          /\ project_users' = written.table
          /\ Complete(r, Ended(r, written.exc, {}))
    /\ UNCHANGED <<workspaces, projects, tasks, reminders, seq, users, workspace_users>>

(***************************************************************************)
(* crud/workspace.py                                                       *)
(***************************************************************************)
Workspace(id, name, u) == [id |-> id, name |-> name, created_by |-> u]

\* the WHERE clause compares created_by with the column User.id, not with the
\* caller: the row is returned whenever its creator is a row of users
get_workspace_by_id(w) == {x \in workspaces : x.id = w /\ UserExists(x.created_by)}

\* up to await db.commit().  Workspace(...) reads workspace_data.created_by:
\* a WorkspaceCreate declares name only, so for a validated payload the read
\* is an AttributeError and nothing has reached the database; an object that
\* carries created_by is inserted.
create_workspace(workspace_data) ==
    IF "created_by" \notin DOMAIN workspace_data
    THEN Result("AttributeError", 0, "", {}, {})
    ELSE Result("", 0, "commit", {},
                {Workspace(0, workspace_data.name, workspace_data.created_by)})

\* the id sequence of workspaces, counting the inserts under way, is below n
WorkspaceRoom(n) == seq.workspaces + Pending({"create_workspace"}, "commit") < n

CreateWorkspace(workspace_data) ==
    \E res \in {create_workspace(workspace_data)} :
        /\ IF res.pc = ""
           THEN Return(Outcome("create_workspace", 0, 0, 0, 0, res.exc, res.status, {}))
           ELSE Suspend(Request("create_workspace", res.pc, workspace_data.created_by,
                                0, 0, 0, res.status, res.loaded, res.object, {}))
        /\ UNCHANGED <<workspaces, projects, project_users, tasks, reminders, seq, users,
                       workspace_users>>

\* the flush of the new workspace.  created_by is a foreign key to users.id
\* (User.created_workspaces); the id is drawn from the sequence before the
\* key is checked, so a refused insert uses it up.
InsertWorkspace(object) ==
    IF UserExists(object.created_by)
    THEN Written("", workspaces \cup {[object EXCEPT !.id = seq.workspaces + 1]})
    ELSE Written(IntegrityError, workspaces)

\* await db.commit() of create_workspace
CreateWorkspaceCommit(r) ==
    /\ Running(r) /\ r.op = "create_workspace" /\ r.pc = "commit"
    /\ \E written \in {InsertWorkspace(ObjectOf(r))} :
          /\ workspaces' = written.table
          /\ IF written.exc # ""
             THEN Complete(r, Ended(r, written.exc, {}))
             ELSE Continue(r, [r EXCEPT !.pc = "refresh",
                                        !.object = {[ObjectOf(r) EXCEPT
                                                       !.id = seq.workspaces + 1]}])
    /\ seq' = [seq EXCEPT !.workspaces = @ + 1]
    /\ UNCHANGED <<projects, project_users, tasks, reminders, users, workspace_users>>

\* await db.refresh(new_workspace)
CreateWorkspaceRefresh(r) ==
    /\ Running(r) /\ r.op = "create_workspace" /\ r.pc = "refresh"
    /\ Complete(r, Ended(r, Refresh(workspaces, ObjectOf(r).id), {}))
    /\ UNCHANGED <<workspaces, projects, project_users, tasks, reminders, seq, users,
                   workspace_users>>

\* up to await db.commit(); the WorkspaceUpdate payload carries a name only.
\* Returns None when there is no such row.
update_workspace(w, workspace_data) ==
    LET workspace == RowById(workspaces, w)
    IN  IF workspace = {} THEN Result("", 0, "", {}, {})
        ELSE Result("", 0, "commit", workspace,
                    {IF workspace_data.name # NoneStr
                     THEN [x EXCEPT !.name = workspace_data.name] ELSE x :
                        x \in workspace})

UpdateWorkspace(w, workspace_data) ==
    \E res \in {update_workspace(w, workspace_data)} :
        /\ IF res.pc = ""
           THEN Return(Outcome("update_workspace", 0, 0, 0, 0, res.exc, res.status,
                               {[id |-> w, name |-> workspace_data.name]}))
           ELSE Suspend(Request("update_workspace", res.pc, 0, 0, 0, 0, res.status,
                                res.loaded, res.object,
                                {[id |-> w, name |-> workspace_data.name]}))
        /\ UNCHANGED <<workspaces, projects, project_users, tasks, reminders, seq, users,
                       workspace_users>>

\* await db.commit() of update_workspace
UpdateWorkspaceCommit(r) ==
    /\ Running(r) /\ r.op = "update_workspace" /\ r.pc = "commit"
    /\ \E written \in {FlushUpdate(workspaces, LoadedOf(r), ObjectOf(r))} :
          /\ workspaces' = written.table
          /\ IF written.exc # ""
             THEN Complete(r, Ended(r, written.exc, r.data))
             ELSE Continue(r, [r EXCEPT !.pc = "refresh"])
    /\ UNCHANGED <<projects, project_users, tasks, reminders, seq, users, workspace_users>>

\* await db.refresh(workspace)
UpdateWorkspaceRefresh(r) ==
    /\ Running(r) /\ r.op = "update_workspace" /\ r.pc = "refresh"
    /\ Complete(r, Ended(r, Refresh(workspaces, ObjectOf(r).id), r.data))
    /\ UNCHANGED <<workspaces, projects, project_users, tasks, reminders, seq, users,
                   workspace_users>>

\* up to await db.commit(); returns False when there is no such row.  await
\* db.delete(workspace) marks the loaded row.
delete_workspace(w) ==
    LET workspace == RowById(workspaces, w)
    IN  IF workspace = {} THEN Result("", 0, "", {}, {})
        ELSE Result("", 0, "commit", workspace, {})

\* what the flush of a deleted workspace yields: the exception and the tables
WorkspaceResult(exc, ws, ps, pus, wus) ==
    [exc |-> exc, workspaces |-> ws, projects |-> ps, project_users |-> pus,
     workspace_users |-> wus]

\* The flush of db.delete(workspace).  The Workspace model is not part of
\* this tree, so what happens to the workspace's projects and member rows is
\* open: the commit fails on them, or they go with the workspace (the
\* projects with their membership rows), which the tasks' foreign key allows
\* only while those projects have no tasks.  Yields the set of possible
\* results.
FlushDeleteWorkspace(loaded) ==
    LET found == RowById(workspaces, loaded.id)
        inside == {x \in projects : x.workspace_id = loaded.id}
        members == {r \in workspace_users : r.workspace_id = loaded.id}
        ids == {x.id : x \in inside}
        unchanged(exc) == WorkspaceResult(exc, workspaces, projects, project_users,
                                          workspace_users)
    IN  IF found = {} THEN {unchanged("")}
        ELSE IF inside = {} /\ members = {}
        THEN {WorkspaceResult("", workspaces \ found, projects, project_users,
                              workspace_users)}
        ELSE {unchanged(IntegrityError)}
             \cup (IF \E t \in tasks : t.project_id \in ids THEN {}
                   ELSE {WorkspaceResult(
                             "", workspaces \ found, projects \ inside,
                             {x \in project_users : x.project_id \notin ids},
                             workspace_users \ members)})

DeleteWorkspace(w) ==
    \E res \in {delete_workspace(w)} :
        /\ IF res.pc = ""
           THEN Return(Outcome("delete_workspace", 0, 0, 0, 0, res.exc, res.status,
                               {[id |-> w, found |-> FALSE]}))
           ELSE Suspend(Request("delete_workspace", res.pc, 0, 0, 0, 0, res.status,
                                res.loaded, res.object, {[id |-> w, found |-> TRUE]}))
        /\ UNCHANGED <<workspaces, projects, project_users, tasks, reminders, seq, users,
                       workspace_users>>

\* await db.commit() of delete_workspace
DeleteWorkspaceCommit(r) ==
    /\ Running(r) /\ r.op = "delete_workspace" /\ r.pc = "commit"
    /\ \E res \in FlushDeleteWorkspace(LoadedOf(r)) :
          /\ workspaces' = res.workspaces
          /\ projects' = res.projects
          /\ project_users' = res.project_users
          /\ workspace_users' = res.workspace_users
          /\ Complete(r, Ended(r, res.exc, r.data))
    /\ UNCHANGED <<tasks, reminders, seq, users>>

\* the lists that hold every element of the set S once; a SELECT without
\* ORDER BY returns its rows in an order the database chooses
Orderings(S) ==
    {s \in [1..Cardinality(S) -> S] : \A x \in S : \E i \in 1..Cardinality(S) : s[i] = x}

\* as get_user_workspaces, but only the first row of the result is returned
get_user_workspaces_first(user_id) ==
    LET found == {x \in workspaces : x.created_by = user_id}
    IN  IF found = {} THEN {<<>>} ELSE {<<x>> : x \in found}

\* select(Workspace).where(Workspace.created_by == user.id), every row of
\* the result as a WorkspaceResponse: the lists the call can return
get_user_workspaces(user_id) ==
    Orderings({x \in workspaces : x.created_by = user_id})

\* the one await of get_user_workspaces
GetUserWorkspaces(user_id) ==
    /\ \E listed \in get_user_workspaces(user_id) :
          Return(Outcome("get_user_workspaces", user_id, 0, 0, 0, "", 0, listed))
    /\ UNCHANGED <<workspaces, projects, project_users, tasks, reminders, seq, users,
                   workspace_users>>

(***************************************************************************)
(* crud/project.py                                                         *)
(***************************************************************************)
Project(id, name, w, u) == [id |-> id, name |-> name, workspace_id |-> w, created_by |-> u]

\* up to await db.commit(): the projects row and nothing else; created_by is
\* read from the payload
create_project(name, w, created_by) ==
    Result("", 0, "commit", {}, {Project(0, name, w, created_by)})

\* the flush of the new project: workspace_id and created_by are foreign
\* keys, both NOT NULL.  The id is drawn from the sequence before the keys
\* are checked, so a refused insert uses it up.
InsertProject(object) ==
    IF (\E x \in workspaces : x.id = object.workspace_id) /\ UserExists(object.created_by)
    THEN Written("", projects \cup {[object EXCEPT !.id = seq.projects + 1]})
    ELSE Written(IntegrityError, projects)

CreateProject(name, w, created_by) ==
    \E res \in {create_project(name, w, created_by)} :
        /\ seq.projects + Pending({"create_project"}, "commit") < MaxProjects
        /\ Suspend(Request("create_project", res.pc, created_by, 0, 0, 0, res.status,
                           res.loaded, res.object, {}))
        /\ UNCHANGED <<workspaces, projects, project_users, tasks, reminders, seq, users,
                       workspace_users>>

\* await db.commit() of create_project
CreateProjectCommit(r) ==
    /\ Running(r) /\ r.op = "create_project" /\ r.pc = "commit"
    /\ \E written \in {InsertProject(ObjectOf(r))} :
          /\ projects' = written.table
          /\ IF written.exc # ""
             THEN Complete(r, Ended(r, written.exc, {}))
             ELSE Continue(r, [r EXCEPT !.pc = "refresh",
                                        !.project_id = seq.projects + 1,
                                        !.object = {[ObjectOf(r) EXCEPT
                                                       !.id = seq.projects + 1]}])
    /\ seq' = [seq EXCEPT !.projects = @ + 1]
    /\ UNCHANGED <<workspaces, project_users, tasks, reminders, users, workspace_users>>

\* await db.refresh(new_project)
CreateProjectRefresh(r) ==
    /\ Running(r) /\ r.op = "create_project" /\ r.pc = "refresh"
    /\ Complete(r, Ended(r, Refresh(projects, ObjectOf(r).id), {}))
    /\ UNCHANGED <<workspaces, projects, project_users, tasks, reminders, seq, users,
                   workspace_users>>

\* up to await db.commit(); only project_data.name is read.  Returns None
\* when there is no such row.
update_project(p, project_data) ==
    LET project == get_project_by_id(p)
    IN  IF project = {} THEN Result("", 0, "", {}, {})
        ELSE Result("", 0, "commit", project,
                    {IF project_data.name # NoneStr
                     THEN [x EXCEPT !.name = project_data.name] ELSE x : x \in project})

UpdateProject(p, project_data) ==
    \E res \in {update_project(p, project_data)} :
        /\ IF res.pc = ""
           THEN Return(Outcome("update_project", 0, p, 0, 0, res.exc, res.status,
                               {[id |-> p, name |-> project_data.name]}))
           ELSE Suspend(Request("update_project", res.pc, 0, p, 0, 0, res.status,
                                res.loaded, res.object,
                                {[id |-> p, name |-> project_data.name]}))
        /\ UNCHANGED <<workspaces, projects, project_users, tasks, reminders, seq, users,
                       workspace_users>>

\* await db.commit() of update_project
UpdateProjectCommit(r) ==
    /\ Running(r) /\ r.op \in {"update_project", "update_project_endpoint"}
    /\ r.pc = "commit"
    /\ \E written \in {FlushUpdate(projects, LoadedOf(r), ObjectOf(r))} :
          /\ projects' = written.table
          /\ IF written.exc # ""
             THEN Complete(r, Ended(r, written.exc, r.data))
             ELSE Continue(r, [r EXCEPT !.pc = "refresh"])
    /\ UNCHANGED <<workspaces, project_users, tasks, reminders, seq, users,
                   workspace_users>>

\* await db.refresh(project)
UpdateProjectRefresh(r) ==
    /\ Running(r) /\ r.op \in {"update_project", "update_project_endpoint"}
    /\ r.pc = "refresh"
    /\ Complete(r, Ended(r, Refresh(projects, ObjectOf(r).id), r.data))
    /\ UNCHANGED <<workspaces, projects, project_users, tasks, reminders, seq, users,
                   workspace_users>>

\* the Project object a SELECT yields: the relationships tasks and users are
\* lazy="selectin", so the row comes with the keys of its tasks and of its
\* membership rows as they are when it is loaded
LoadedProject(project) ==
    [id |-> project.id, name |-> project.name, workspace_id |-> project.workspace_id,
     created_by |-> project.created_by,
     tasks |-> {t.id : t \in {x \in tasks : x.project_id = project.id}},
     users |-> {r.id : r \in {x \in project_users : x.project_id = project.id}}]

\* up to await db.commit(); returns False when there is no such row.  await
\* db.delete(project) marks the loaded object: neither relationship of
\* Project cascades the delete, so nothing more is loaded.
delete_project(p) ==
    LET project == get_project_by_id(p)
    IN  IF project = {} THEN Result("", 0, "", {}, {})
        ELSE Result("", 0, "commit", {LoadedProject(x) : x \in project}, {})

\* How the unit of work detaches the children an object was loaded with
\* when the relationship has no delete cascade: one UPDATE ... SET <foreign
\* key> = NULL WHERE id = <child> for each, sent together.  The database
\* refuses it for a child that is still there when the column is NOT NULL;
\* a single UPDATE that matches no row raises StaleDataError, and of several
\* UPDATEs sent together the session counts the matched rows only where the
\* driver reports them.  Yields the possible outcomes, "" for going on.
Detach(children, table, nullable) ==
    LET live == {x \in table : x.id \in children}
        gone == children \ {x.id : x \in table}
    IN  CASE children = {} -> {""}
          [] live # {} /\ ~nullable -> {IntegrityError}
          [] (live = {} \/ nullable) /\ gone = {} /\ children # {} -> {""}
          [] (live = {} \/ nullable) /\ gone # {} /\ Cardinality(children) = 1 ->
                 {StaleDataError}
          [] OTHER -> {StaleDataError, ""}

\* what the flush of a deleted project yields: the exception and the tables
ProjectResult(exc, ps, pus) == [exc |-> exc, projects |-> ps, project_users |-> pus]

\* The flush of the deleted project.  Project.tasks and Project.users carry
\* no delete cascade: the session first sets project_id to NULL on the tasks
\* and membership rows the project was loaded with (both columns are NOT
\* NULL), in an order between the two tables that the mapping does not fix,
\* and then deletes the row.  Rows the session has not loaded are the
\* database's: project_users.project_id is ON DELETE CASCADE, tasks.project_id
\* has no ON DELETE and refuses the delete.  Yields the set of possible
\* results.
FlushDeleteProject(loaded) ==
    LET detachTasks == Detach(loaded.tasks, tasks, FALSE)
        detachUsers == Detach(loaded.users, project_users, FALSE)
        raised == (detachTasks \cup detachUsers) \ {""}
        deleted == IF \E t \in tasks : t.project_id = loaded.id
                   THEN ProjectResult(IntegrityError, projects, project_users)
                   ELSE ProjectResult("", projects \ RowById(projects, loaded.id),
                                      {r \in project_users : r.project_id # loaded.id})
    IN  {ProjectResult(exc, projects, project_users) : exc \in raised}
        \cup (IF "" \in detachTasks /\ "" \in detachUsers THEN {deleted} ELSE {})

(***************************************************************************)
(* crud/task.py                                                            *)
(***************************************************************************)
Task(id, name, description, status, priority, due_date, created_by, assigned_to, project_id, parent_task_id) ==
    [id |-> id, name |-> name, description |-> description, status |-> status,
     priority |-> priority, due_date |-> due_date, is_completed |-> FALSE,
     created_by |-> created_by, assigned_to |-> assigned_to,
     project_id |-> project_id, parent_task_id |-> parent_task_id]

Reminder(id, t, time) == [id |-> id, task_id |-> t, reminder_time |-> time]

\* The columns status and priority are Enum(TaskStatus) and Enum(TaskPriority):
\* a row read back from the database carries enum members, not strings.
OPEN == "TaskStatus.OPEN"

NONE == "TaskPriority.NONE"

EnumMembers ==
    {"TaskStatus.OPEN", "TaskStatus.IN_PROGRESS", "TaskStatus.REVIEW", "TaskStatus.DONE",
     "TaskPriority.NONE", "TaskPriority.LOW", "TaskPriority.NORMAL", "TaskPriority.HIGH"}

\* member.value; the Cyrillic values of TaskStatus are written here in Latin
\* letters
EnumValue(member) ==
    CASE member = "TaskStatus.OPEN" -> "Otkryto"
      [] member = "TaskStatus.IN_PROGRESS" -> "V rabote"
      [] member = "TaskStatus.REVIEW" -> "Proverka"
      [] member = "TaskStatus.DONE" -> "Gotovo"
      [] member = "TaskPriority.NONE" -> "None"
      [] member = "TaskPriority.LOW" -> "low"
      [] member = "TaskPriority.NORMAL" -> "normal"
      [] member = "TaskPriority.HIGH" -> "high"

\* What a statement stores of a status or priority attribute.  The Enum type
\* sends a member as its name, the name of a member as it is and any other
\* string unchanged (validate_strings is off); the database's enum type
\* accepts the names only, so the statement fails for every other string,
\* the members' values included.
DataError == "DataError"

DbStatus(s) ==
    CASE s \in EnumMembers -> s
      [] s = "OPEN" -> "TaskStatus.OPEN"
      [] s = "IN_PROGRESS" -> "TaskStatus.IN_PROGRESS"
      [] s = "REVIEW" -> "TaskStatus.REVIEW"
      [] s = "DONE" -> "TaskStatus.DONE"
      [] OTHER -> DataError

DbPriority(s) ==
    CASE s \in EnumMembers -> s
      [] s = "NONE" -> "TaskPriority.NONE"
      [] s = "LOW" -> "TaskPriority.LOW"
      [] s = "NORMAL" -> "TaskPriority.NORMAL"
      [] s = "HIGH" -> "TaskPriority.HIGH"
      [] OTHER -> DataError

\* how an Optional[str] field of a schema takes what it is given: None and
\* a string as they are, a member of a plain Enum as its value
StrField(v) == IF v \in EnumMembers THEN EnumValue(v) ELSE v

\* TaskResponse(...) called with keywords: status and priority are declared
\* Optional[str] and take the loaded enum members by their values
TaskResponse(id, name, due_date, description, status, priority, project_id, created_by, assigned_to, is_completed, parent_task_id) ==
    [id |-> id, name |-> name, due_date |-> due_date, description |-> description,
     status |-> StrField(status), priority |-> StrField(priority),
     project_id |-> project_id, created_by |-> created_by,
     assigned_to |-> assigned_to, is_completed |-> is_completed,
     parent_task_id |-> parent_task_id]

\* TaskResponse.model_validate(task): every declared field is read from the
\* attribute of its name (from_attributes)
model_validate(task) ==
    TaskResponse(task.id, task.name, task.due_date, task.description, task.status,
                 task.priority, task.project_id, task.created_by, task.assigned_to,
                 task.is_completed, task.parent_task_id)

\* the status a call answers with: `ok` on a normal return, 500 otherwise
StatusOf(exc, ok) == IF exc = "" THEN ok ELSE HTTP_500_INTERNAL

\* `if x:` on an Optional[int]
Truthy(x) == x # NoneId /\ x # 0

\* as create_task, but a missing parent is not looked up
create_task_unchecked_parent(task_data, current_user_id) ==
    Result("", HTTP_201_CREATED, "flush", {},
           {Task(0, task_data.name, task_data.description, task_data.status,
                 task_data.priority, task_data.due_date, current_user_id,
                 IF task_data.assigned_to = 0 THEN NoneId ELSE task_data.assigned_to,
                 task_data.project_id,
                 IF task_data.parent_task_id = 0 THEN NoneId
                 ELSE task_data.parent_task_id)})

\* up to await db.flush(): the parent, when one is named, is looked up with
\* db.get, and the new task is added to the session with status and
\* priority as the payload has them
create_task(task_data, current_user_id) ==
    LET parent_task_id == IF task_data.parent_task_id = 0 THEN NoneId
                          ELSE task_data.parent_task_id
        assigned_to == IF task_data.assigned_to = 0 THEN NoneId
                       ELSE task_data.assigned_to
        new_task == Task(0, task_data.name, task_data.description, task_data.status,
                         task_data.priority, task_data.due_date, current_user_id,
                         assigned_to, task_data.project_id, parent_task_id)
    IN  IF Truthy(task_data.parent_task_id) /\ ~TaskExists(task_data.parent_task_id)
        THEN Result("HTTPException", HTTP_404_NOT_FOUND, "", {}, {})
        ELSE Result("", HTTP_201_CREATED, "flush", {}, {new_task})

\* await db.flush(): the INSERT of the task, inside the transaction.  An
\* attribute that is None is left to the column's default (OPEN, NONE); a
\* string the enum type refuses fails the statement.  The id is drawn from
\* the sequence before the foreign keys (project_id, parent_task_id,
\* created_by, assigned_to) are checked, so an insert they refuse uses it
\* up.  Yields the exception, the key the object now carries and the row as
\* inserted.
FlushTask(object) ==
    LET status == IF object.status = NoneStr THEN OPEN ELSE DbStatus(object.status)
        priority == IF object.priority = NoneStr THEN NONE
                    ELSE DbPriority(object.priority)
    IN  CASE DataError \in {status, priority} ->
                 [exc |-> DataError, id |-> 0, seq |-> seq, object |-> {}]
          [] DataError \notin {status, priority}
               /\ (\/ ~ProjectExists(object.project_id)
                   \/ (object.parent_task_id # NoneId
                          /\ ~TaskExists(object.parent_task_id))
                   \/ ~UserExists(object.created_by)
                   \/ (object.assigned_to # NoneId /\ ~UserExists(object.assigned_to))) ->
                 [exc |-> IntegrityError, id |-> 0,
                  seq |-> [seq EXCEPT !.tasks = @ + 1], object |-> {}]
          [] OTHER ->
                 [exc |-> "", id |-> seq.tasks + 1,
                  seq |-> [seq EXCEPT !.tasks = @ + 1],
                  object |-> {[object EXCEPT !.id = seq.tasks + 1, !.status = status,
                                             !.priority = priority]}]

\* await db.flush() of create_task, reached by the coroutine that waits as r
\* (a coroutine at "call" has not been suspended yet) and holds what flushing
\* says; past it the reminder is added to the session
create_task_flush(r, flushing) ==
    \E flushed \in {FlushTask(ObjectOf(flushing))} :
        /\ seq' = flushed.seq
        /\ IF flushed.exc # ""
           THEN Complete(r, Outcome("create_task", flushing.caller, flushing.project_id,
                                    0, 0, flushed.exc, HTTP_500_INTERNAL, flushing.data))
           ELSE Continue(r, [flushing EXCEPT
                               !.pc = "commit", !.task_id = flushed.id,
                               !.object = flushed.object])

\* create_task from its entry to its second await, entered by the coroutine
\* that waits as r: db.get of the parent when the payload names one, else
\* the flush
create_task_enter(r, task_data, current_user_id) ==
    \E res \in {create_task(task_data, current_user_id)} :
        IF res.pc = ""
        THEN /\ Complete(r, Outcome("create_task", current_user_id,
                                    task_data.project_id, 0, 0, res.exc, res.status,
                                    {task_data}))
             /\ UNCHANGED seq
        ELSE /\ seq.tasks + Pending({"create_task"}, "flush") < MaxTasks
             /\ \E entered \in {Request("create_task", res.pc, current_user_id,
                                        task_data.project_id, 0, 0, res.status,
                                        res.loaded, res.object, {task_data})} :
                    IF Truthy(task_data.parent_task_id)
                    THEN Continue(r, entered) /\ UNCHANGED seq
                    ELSE create_task_flush(r, entered)

\* a coroutine that has not been suspended yet
Called(op) == Request(op, "call", 0, 0, 0, 0, 0, {}, {}, {})

CreateTask(current_user_id, task_data) ==
    /\ Idle
    /\ create_task_enter(Called("create_task"), task_data, current_user_id)
    /\ UNCHANGED <<workspaces, projects, project_users, tasks, reminders, users,
                   workspace_users>>

CreateTaskFlush(r) ==
    /\ Running(r) /\ r.op = "create_task" /\ r.pc = "flush"
    /\ create_task_flush(r, r)
    /\ UNCHANGED <<workspaces, projects, project_users, tasks, reminders, users,
                   workspace_users>>

\* await db.commit() of create_task: the task and its reminder become rows
CreateTaskCommit(r) ==
    /\ Running(r) /\ r.op = "create_task" /\ r.pc = "commit"
    /\ tasks' = tasks \cup r.object
    /\ \E task_data \in r.data :
          IF Truthy(task_data.reminder_time)
          THEN /\ reminders' = reminders \cup {Reminder(seq.reminders + 1, r.task_id,
                                                        task_data.reminder_time)}
               /\ seq' = [seq EXCEPT !.reminders = @ + 1]
          ELSE UNCHANGED <<reminders, seq>>
    /\ Continue(r, [r EXCEPT !.pc = "refresh"])
    /\ UNCHANGED <<workspaces, projects, project_users, users, workspace_users>>

\* await db.refresh(new_task), then the TaskResponse built from it; the
\* parent is passed under the keyword parent_task, which TaskResponse does
\* not declare and ignores, so parent_task_id keeps its default None
CreateTaskRefresh(r) ==
    /\ Running(r) /\ r.op = "create_task" /\ r.pc = "refresh"
    /\ IF Refresh(tasks, r.task_id) # ""
       THEN Complete(r, Outcome("create_task", r.caller, r.project_id, 0, r.task_id,
                                Refresh(tasks, r.task_id), HTTP_500_INTERNAL, r.data))
       ELSE \E new_task \in RowById(tasks, r.task_id) :
                Complete(r, Responded(
                    Outcome("create_task", r.caller, r.project_id, 0, r.task_id, "",
                            HTTP_201_CREATED, r.data),
                    {TaskResponse(new_task.id, new_task.name, new_task.due_date,
                                  new_task.description, new_task.status,
                                  new_task.priority, new_task.project_id,
                                  new_task.created_by, new_task.assigned_to,
                                  new_task.is_completed, NoneId)}))
    /\ UNCHANGED <<workspaces, projects, project_users, tasks, reminders, seq, users,
                   workspace_users>>

\* the assignments update_task makes to the loaded task: each attribute takes
\* the payload's value as it is (a status or priority given as a string
\* stays a string until the flush).  Optional[bool]: <<>> is None, <<b>> the
\* value b
update_task_fields(task, task_data, can_edit_content, can_update_completion) ==
    LET edited ==
            IF can_edit_content
            THEN [task EXCEPT
                    !.name = IF task_data.name # NoneStr THEN task_data.name ELSE @,
                    !.description = IF task_data.description # NoneStr
                                    THEN task_data.description ELSE @,
                    !.priority = IF task_data.priority # NoneStr
                                 THEN task_data.priority ELSE @,
                    !.due_date = IF task_data.due_date # NoneId
                                 THEN task_data.due_date ELSE @,
                    !.status = IF task_data.status # NoneStr
                               THEN task_data.status ELSE @,
                    !.assigned_to = IF task_data.assigned_to # NoneId
                                    THEN task_data.assigned_to ELSE @]
            ELSE task
    IN  IF can_update_completion /\ task_data.is_completed # <<>>
        THEN [edited EXCEPT !.is_completed = task_data.is_completed[1]]
        ELSE edited

\* The flush of the changed task: UPDATE tasks SET <the attributes whose
\* value differs from the loaded one> WHERE id = loaded.id.  A status or
\* priority assigned as a string differs from the loaded member even when
\* it is that member's name.  A string the enum type refuses fails the
\* statement; a statement that matches no row raises StaleDataError; an
\* assigned_to that names no user breaks the foreign key to users.id.
FlushUpdateTask(loaded, object) ==
    LET dirty == {f \in DOMAIN loaded : object[f] # loaded[f]}
        bound == [object EXCEPT !.status = DbStatus(@), !.priority = DbPriority(@)]
        current == RowById(tasks, loaded.id)
    IN  CASE dirty = {} -> Written("", tasks)
          [] dirty # {} /\ DataError \in {bound.status, bound.priority} ->
                 Written(DataError, tasks)
          [] dirty # {} /\ DataError \notin {bound.status, bound.priority}
               /\ current = {} -> Written(StaleDataError, tasks)
          [] dirty # {} /\ DataError \notin {bound.status, bound.priority}
               /\ current # {}
               /\ "assigned_to" \in dirty /\ object.assigned_to # NoneId
               /\ ~UserExists(object.assigned_to) ->
                 Written(IntegrityError, tasks)
          [] OTHER ->
                 LET row == CHOOSE x \in current : TRUE
                 IN  Written("", (tasks \ current)
                                   \cup {[f \in DOMAIN row |->
                                             IF f \in dirty THEN bound[f] ELSE row[f]]})

update_task_ignoring_flags(t, task_data, can_edit_content, can_update_completion) ==
    IF ~TaskExists(t)
    THEN Result("HTTPException", HTTP_404_NOT_FOUND, "", {}, {})
    ELSE Result("", HTTP_200_OK, "commit", {TaskById(t)},
                {update_task_fields(TaskById(t), task_data, TRUE, TRUE)})

\* as update_task, but the payload's parent_task_id is written as well
update_task_reparenting(t, task_data, can_edit_content, can_update_completion) ==
    IF ~TaskExists(t)
    THEN Result("HTTPException", HTTP_404_NOT_FOUND, "", {}, {})
    ELSE Result("", HTTP_200_OK, "commit", {TaskById(t)},
                {[update_task_fields(TaskById(t), task_data, can_edit_content,
                                     can_update_completion)
                     EXCEPT !.parent_task_id = IF task_data.parent_task_id # NoneId
                                               THEN task_data.parent_task_id ELSE @]})

\* as update_task, but is_completed is written whatever can_update_completion
\* says
update_task_completing(t, task_data, can_edit_content, can_update_completion) ==
    IF ~TaskExists(t)
    THEN Result("HTTPException", HTTP_404_NOT_FOUND, "", {}, {})
    ELSE Result("", HTTP_200_OK, "commit", {TaskById(t)},
                {update_task_fields(TaskById(t), task_data, can_edit_content, TRUE)})

\* up to await db.commit(): the SELECT of the task and the assignments to
\* the loaded row; the payload's parent_task_id is never read
update_task(t, task_data, can_edit_content, can_update_completion) ==
    IF ~TaskExists(t)
    THEN Result("HTTPException", HTTP_404_NOT_FOUND, "", {}, {})
    ELSE Result("", HTTP_200_OK, "commit", {TaskById(t)},
                {update_task_fields(TaskById(t), task_data, can_edit_content,
                                    can_update_completion)})

\* the Task object the SELECT of delete_task yields: reminders is
\* lazy="joined", so the row comes with the keys of its reminders as they
\* are when it is loaded.  subtasks is lazy="selectin" on a relationship
\* from Task to Task with no join_depth: an eager load stops where it meets
\* the mapper it started from, so the SELECT loads no subtasks and the
\* collection is read when it is first needed, at the flush.
LoadedTask(task) ==
    [id |-> task.id, name |-> task.name, description |-> task.description,
     status |-> task.status, priority |-> task.priority, due_date |-> task.due_date,
     is_completed |-> task.is_completed, created_by |-> task.created_by,
     assigned_to |-> task.assigned_to, project_id |-> task.project_id,
     parent_task_id |-> task.parent_task_id,
     reminders |-> {x.id : x \in {y \in reminders : y.task_id = task.id}}]

\* up to await db.commit(); await db.delete(task) marks the loaded object:
\* neither relationship of Task cascades the delete, so nothing more is
\* loaded
delete_task(t) ==
    IF ~TaskExists(t)
    THEN Result("HTTPException", HTTP_404_NOT_FOUND, "", {}, {})
    ELSE Result("", HTTP_200_OK, "commit", {LoadedTask(TaskById(t))}, {})

\* what the flush of a deleted task yields: the exception and the tables
TaskResult(exc, newTasks, newReminders) ==
    [exc |-> exc, tasks |-> newTasks, reminders |-> newReminders]

\* The flush of db.delete(task).  Task.subtasks and Task.reminders carry no
\* delete cascade and no passive_deletes.  The session reads the subtasks
\* the task has now, sets parent_task_id to NULL on each of them and on the
\* reminders the task was loaded with also the foreign key, and then
\* deletes the one row: every subtask there is at the flush stays, without
\* a parent, and ON DELETE CASCADE of parent_task_id finds nothing to
\* remove.  The Reminder model is not part of this tree: where
\* reminders.task_id is nullable the loaded reminders stay behind without a
\* task, where it is not the commit fails; a reminder of the task that the
\* session has not loaded goes with the task, stays behind without a task
\* or refuses the delete.  Yields the set of possible results.
FlushDeleteTask(loaded) ==
    LET unchanged(exc) == TaskResult(exc, tasks, reminders)
        subtasks == {x.id : x \in {y \in tasks : y.parent_task_id = loaded.id}}
        detachReminders == Detach(loaded.reminders, reminders, TRUE)
                               \cup Detach(loaded.reminders, reminders, FALSE)
        raised == detachReminders \ {""}
        detached == {IF x.id \in subtasks
                     THEN [x EXCEPT !.parent_task_id = NoneId] ELSE x : x \in tasks}
        orphaned == {IF r.id \in loaded.reminders
                     THEN [r EXCEPT !.task_id = NoneId] ELSE r : r \in reminders}
        left == {x \in detached : x.id # loaded.id}
        theirs == {r \in orphaned : r.task_id = loaded.id}
        deleted == IF theirs = {} THEN {TaskResult("", left, orphaned)}
                   ELSE {TaskResult("", left, orphaned \ theirs),
                         TaskResult("", left,
                                    {IF r \in theirs THEN [r EXCEPT !.task_id = NoneId]
                                     ELSE r : r \in orphaned}),
                         unchanged(IntegrityError)}
    IN  {unchanged(exc) : exc \in raised}
        \cup (IF "" \in detachReminders THEN deleted ELSE {})

\* the row as a TaskResponse, None (no row) for a missing task
get_task_by_id(t) ==
    IF ~TaskExists(t) THEN [exc |-> "", rows |-> {}]
    ELSE [exc |-> "", rows |-> {model_validate(TaskById(t))}]

\* select(Task).where(Task.project_id == project_id), each row turned into a
\* TaskResponse; the parent is passed under the keyword parent_task, which
\* TaskResponse ignores
get_project_tasks(p) ==
    [exc |-> "",
     rows |-> {TaskResponse(task.id, task.name, task.due_date, task.description,
                            task.status, task.priority, task.project_id,
                            task.created_by, task.assigned_to, task.is_completed,
                            NoneId) : task \in {x \in tasks : x.project_id = p}}]

\* the exception behind a gate's status
GateExc(gate) ==
    IF gate = HTTP_200_OK THEN ""
    ELSE IF gate = HTTP_500_INTERNAL THEN MultipleResultsFound
    ELSE "HTTPException"

\* the arguments of one update_task call: the payload and the two flags
UpdateTaskCall(task_data, can_edit_content, can_update_completion) ==
    [name |-> task_data.name, description |-> task_data.description,
     status |-> task_data.status, priority |-> task_data.priority,
     due_date |-> task_data.due_date, assigned_to |-> task_data.assigned_to,
     is_completed |-> task_data.is_completed,
     parent_task_id |-> task_data.parent_task_id,
     can_edit_content |-> can_edit_content,
     can_update_completion |-> can_update_completion]

\* update_task from its entry to await db.commit(), entered by the coroutine
\* that waits as r
update_task_enter(r, op, caller, t, task_data, can_edit_content, can_update_completion) ==
    \E res \in {update_task(t, task_data, can_edit_content, can_update_completion)} :
        \E call \in {UpdateTaskCall(task_data, can_edit_content,
                                    can_update_completion)} :
            IF res.pc = ""
            THEN Complete(r, Outcome(op, caller, 0, 0, t, res.exc, res.status,
                                     IF caller = 0 THEN {call} ELSE {}))
            ELSE Continue(r, Request(op, res.pc, caller, 0, 0, t, res.status,
                                     res.loaded, res.object, {call}))

UpdateTask(t, task_data, can_edit_content, can_update_completion) ==
    /\ Idle
    /\ update_task_enter(Called("update_task"), "update_task", 0, t, task_data,
                         can_edit_content, can_update_completion)
    /\ UNCHANGED <<workspaces, projects, project_users, tasks, reminders, seq, users,
                   workspace_users>>

\* what the outcome of an update_task coroutine records: the arguments of a
\* call made outside a route (one with no caller)
Arguments(r) == IF r.caller = 0 THEN r.data ELSE {}

\* await db.commit() of update_task
UpdateTaskCommit(r) ==
    /\ Running(r) /\ r.op \in {"update_task", "complete_task"} /\ r.pc = "commit"
    /\ \E written \in {FlushUpdateTask(LoadedOf(r), ObjectOf(r))} :
          /\ tasks' = written.table
          /\ IF written.exc # ""
             THEN Complete(r, Ended(r, written.exc, Arguments(r)))
             ELSE Continue(r, [r EXCEPT !.pc = "refresh"])
    /\ UNCHANGED <<workspaces, projects, project_users, reminders, seq, users,
                   workspace_users>>

\* await db.refresh(task), then TaskResponse.model_validate(task)
UpdateTaskRefresh(r) ==
    /\ Running(r) /\ r.op \in {"update_task", "complete_task"} /\ r.pc = "refresh"
    /\ IF Refresh(tasks, r.task_id) # ""
       THEN Complete(r, Ended(r, Refresh(tasks, r.task_id), Arguments(r)))
       ELSE \E task \in RowById(tasks, r.task_id) :
                Complete(r, Responded(Ended(r, "", Arguments(r)),
                                      {model_validate(task)}))
    /\ UNCHANGED <<workspaces, projects, project_users, tasks, reminders, seq, users,
                   workspace_users>>

DeleteTask(t) ==
    \E res \in {delete_task(t)} :
        /\ IF res.pc = ""
           THEN Return(Outcome("delete_task", 0, 0, 0, t, res.exc, res.status, {}))
           ELSE Suspend(Request("delete_task", res.pc, 0, 0, 0, t, res.status,
                                res.loaded, res.object, {}))
        /\ UNCHANGED <<workspaces, projects, project_users, tasks, reminders, seq, users,
                       workspace_users>>

\* await db.commit() of delete_task
DeleteTaskCommit(r) ==
    /\ Running(r) /\ r.op = "delete_task" /\ r.pc = "commit"
    /\ \E res \in FlushDeleteTask(LoadedOf(r)) :
          /\ tasks' = res.tasks
          /\ reminders' = res.reminders
          /\ Complete(r, Ended(r, res.exc, {}))
    /\ UNCHANGED <<workspaces, projects, project_users, seq, users, workspace_users>>

\* the one await of get_task_by_id
GetTaskById(t) ==
    /\ Return(Responded(Outcome("get_task_by_id", 0, 0, 0, t, get_task_by_id(t).exc,
                                StatusOf(get_task_by_id(t).exc, HTTP_200_OK), {}),
                        get_task_by_id(t).rows))
    /\ UNCHANGED <<workspaces, projects, project_users, tasks, reminders, seq, users,
                   workspace_users>>

(***************************************************************************)
(* crud/workspace_user.py                                                  *)
(***************************************************************************)
\* models/workspace_user.py is not part of this tree.  The table is taken
\* as the specification describes memberships: one row per workspace and
\* user, both of which must exist; the pair is the row's key.
WorkspaceUser(w, u, access_level) ==
    [id |-> <<w, u>>, workspace_id |-> w, user_id |-> u, access_level |-> access_level]

SelectWorkspaceUser(w, u) ==
    {r \in workspace_users : r.workspace_id = w /\ r.user_id = u}

\* the flush of a new row: an INSERT breaking a foreign key or the key of the
\* table is refused
InsertWorkspaceUser(object) ==
    IF \/ ~\E x \in workspaces : x.id = object.workspace_id
       \/ ~\E x \in users : x.id = object.user_id
       \/ SelectWorkspaceUser(object.workspace_id, object.user_id) # {}
    THEN Written(IntegrityError, workspace_users)
    ELSE Written("", workspace_users \cup {object})

\* up to await db.commit()
create_workspace_user(w, u, access_level) ==
    Result("", 0, "commit", {}, {WorkspaceUser(w, u, access_level)})

\* as is_workspace_admin, but without the condition on access_level
is_workspace_admin_any_level(w, u) == SelectWorkspaceUser(w, u) # {}

is_workspace_admin(w, u) ==
    {r \in SelectWorkspaceUser(w, u) : r.access_level = "admin"} # {}

\* up to await db.commit(): workspace_user.access_level = new_role
update_workspace_user_role(w, u, new_role) ==
    LET workspace_user == SelectWorkspaceUser(w, u)
    IN  IF workspace_user = {} THEN Result("ValueError", 0, "", {}, {})
        ELSE Result("", 0, "commit", workspace_user,
                    {[x EXCEPT !.access_level = new_role] : x \in workspace_user})

\* up to await db.commit(); returns False (no exception) when the row is
\* missing
remove_user_from_workspace(w, u) ==
    LET workspace_user == SelectWorkspaceUser(w, u)
    IN  IF workspace_user = {} THEN Result("", 0, "", {}, {})
        ELSE Result("", 0, "commit", workspace_user, {})

get_users_in_workspace(w) == {r \in workspace_users : r.workspace_id = w}

\* the workspace a coroutine of this section was called for
WorkspaceOf(r) == (CHOOSE d \in r.data : TRUE).workspace_id

\* How a coroutine of this section ends.  Called from a route, the
\* ValueError of the crud function is answered as HTTPException with the
\* status the route gives it (conflict), every other exception with 500.
WorkspaceUserEnded(r, exc, conflict, rows) ==
    Outcome(r.op, r.caller, 0, r.user_id, 0,
            IF r.status # 0 /\ exc = "ValueError" THEN "HTTPException" ELSE exc,
            CASE r.status = 0 -> 0
              [] r.status # 0 /\ exc = "" -> r.status
              [] r.status # 0 /\ exc = "ValueError" -> conflict
              [] OTHER -> HTTP_500_INTERNAL,
            {[d EXCEPT !.rows = rows] : d \in r.data})

\* the coroutine r of create_workspace_user, suspended or not yet, at its
\* await db.commit(): IntegrityError is rolled back and raised again as
\* ValueError
create_workspace_user_commit(r, committing) ==
    \E written \in {InsertWorkspaceUser(ObjectOf(committing))} :
        /\ workspace_users' = written.table
        /\ IF written.exc = IntegrityError
           THEN Complete(r, WorkspaceUserEnded(committing, "ValueError",
                                               HTTP_400_BAD_REQUEST, {}))
           ELSE Continue(r, [committing EXCEPT !.pc = "refresh"])

CreateWorkspaceUser(w, u, access_level) ==
    /\ Idle
    /\ \E res \in {create_workspace_user(w, u, access_level)} :
          create_workspace_user_commit(
              Called("create_workspace_user"),
              Request("create_workspace_user", res.pc, 0, 0, u, 0, res.status,
                      res.loaded, res.object, {[workspace_id |-> w, rows |-> {}]}))
    /\ UNCHANGED <<workspaces, projects, project_users, tasks, reminders, seq, users>>

\* await db.refresh(new_workspace_user)
CreateWorkspaceUserRefresh(r) ==
    /\ Running(r) /\ r.op \in {"create_workspace_user", "add_user_to_workspace"}
    /\ r.pc = "refresh"
    /\ Complete(r, WorkspaceUserEnded(r, Refresh(workspace_users, ObjectOf(r).id),
                                      HTTP_400_BAD_REQUEST, {}))
    /\ UNCHANGED <<workspaces, projects, project_users, tasks, reminders, seq, users,
                   workspace_users>>

\* update_workspace_user_role from its entry to await db.commit(), entered
\* by the coroutine that waits as r
update_workspace_user_role_enter(r, op, caller, status, w, u, new_role) ==
    \E res \in {update_workspace_user_role(w, u, new_role)} :
        \E entered \in {Request(op, res.pc, caller, 0, u, 0, status, res.loaded,
                                res.object, {[workspace_id |-> w, rows |-> {}]})} :
            IF res.pc = ""
            THEN Complete(r, WorkspaceUserEnded(entered, res.exc, HTTP_404_NOT_FOUND, {}))
            ELSE Continue(r, entered)

UpdateWorkspaceUserRole(w, u, new_role) ==
    /\ Idle
    /\ update_workspace_user_role_enter(Called("update_workspace_user_role"),
                                        "update_workspace_user_role", 0, 0, w, u,
                                        new_role)
    /\ UNCHANGED <<workspaces, projects, project_users, tasks, reminders, seq, users,
                   workspace_users>>

\* await db.commit() of update_workspace_user_role
UpdateWorkspaceUserRoleCommit(r) ==
    /\ Running(r) /\ r.op \in {"update_workspace_user_role", "update_user_role"}
    /\ r.pc = "commit"
    /\ \E written \in {FlushUpdate(workspace_users, LoadedOf(r), ObjectOf(r))} :
          /\ workspace_users' = written.table
          /\ IF written.exc # ""
             THEN Complete(r, WorkspaceUserEnded(r, written.exc, HTTP_404_NOT_FOUND, {}))
             ELSE Continue(r, [r EXCEPT !.pc = "refresh"])
    /\ UNCHANGED <<workspaces, projects, project_users, tasks, reminders, seq, users>>

\* await db.refresh(workspace_user)
UpdateWorkspaceUserRoleRefresh(r) ==
    /\ Running(r) /\ r.op \in {"update_workspace_user_role", "update_user_role"}
    /\ r.pc = "refresh"
    /\ Complete(r, WorkspaceUserEnded(r, Refresh(workspace_users, ObjectOf(r).id),
                                      HTTP_404_NOT_FOUND, {}))
    /\ UNCHANGED <<workspaces, projects, project_users, tasks, reminders, seq, users,
                   workspace_users>>

(***************************************************************************)
(* routers/api/workspace_user.py: each route awaits is_workspace_admin and *)
(* then the crud function.                                                 *)
(***************************************************************************)
\* a route of this router up to the await after is_workspace_admin
WorkspaceUserGate(op, pc, caller, status, w, u, object) ==
    /\ IF ~is_workspace_admin(w, caller)
       THEN Return(Outcome(op, caller, 0, u, 0, "HTTPException", HTTP_403_FORBIDDEN,
                           {[workspace_id |-> w, rows |-> {}]}))
       ELSE Suspend(Request(op, pc, caller, 0, u, 0, status, {}, object,
                            {[workspace_id |-> w, rows |-> {}]}))
    /\ UNCHANGED <<workspaces, projects, project_users, tasks, reminders, seq, users,
                   workspace_users>>

add_user_to_workspace(caller, w, u) ==
    WorkspaceUserGate("add_user_to_workspace", "commit", caller, HTTP_201_CREATED, w, u,
                      create_workspace_user(w, u, "member").object)

\* await db.commit() of create_workspace_user, called from the route
add_user_to_workspace_commit(r) ==
    /\ Running(r) /\ r.op = "add_user_to_workspace" /\ r.pc = "commit"
    /\ create_workspace_user_commit(r, r)
    /\ UNCHANGED <<workspaces, projects, project_users, tasks, reminders, seq, users>>

list_workspace_users(caller, w) ==
    WorkspaceUserGate("list_workspace_users", "select", caller, HTTP_200_OK, w, 0, {})

\* await get_users_in_workspace(db, workspace_id)
list_workspace_users_select(r) ==
    /\ Running(r) /\ r.op = "list_workspace_users" /\ r.pc = "select"
    /\ Complete(r, WorkspaceUserEnded(r, "", 0, get_users_in_workspace(WorkspaceOf(r))))
    /\ UNCHANGED <<workspaces, projects, project_users, tasks, reminders, seq, users,
                   workspace_users>>

update_user_role(caller, w, u, access_level) ==
    WorkspaceUserGate("update_user_role", "select", caller, HTTP_200_OK, w, u,
                      {WorkspaceUser(w, u, access_level)})

\* the SELECT of update_workspace_user_role, called from the route
update_user_role_select(r) ==
    /\ Running(r) /\ r.op = "update_user_role" /\ r.pc = "select"
    /\ update_workspace_user_role_enter(r, r.op, r.caller, r.status, WorkspaceOf(r),
                                        r.user_id, ObjectOf(r).access_level)
    /\ UNCHANGED <<workspaces, projects, project_users, tasks, reminders, seq, users,
                   workspace_users>>

delete_user_from_workspace(caller, w, u) ==
    WorkspaceUserGate("delete_user_from_workspace", "select", caller,
                      HTTP_204_NO_CONTENT, w, u, {})

\* the SELECT of remove_user_from_workspace, called from the route: False is
\* answered 404
delete_user_from_workspace_select(r) ==
    /\ Running(r) /\ r.op = "delete_user_from_workspace" /\ r.pc = "select"
    /\ \E res \in {remove_user_from_workspace(WorkspaceOf(r), r.user_id)} :
          IF res.pc = ""
          THEN Complete(r, Outcome(r.op, r.caller, 0, r.user_id, 0, "HTTPException",
                                   HTTP_404_NOT_FOUND, r.data))
          ELSE Continue(r, [r EXCEPT !.pc = res.pc, !.loaded = res.loaded])
    /\ UNCHANGED <<workspaces, projects, project_users, tasks, reminders, seq, users,
                   workspace_users>>

\* await db.commit() of remove_user_from_workspace
delete_user_from_workspace_commit(r) ==
    /\ Running(r) /\ r.op = "delete_user_from_workspace" /\ r.pc = "commit"
    /\ \E written \in {FlushDelete(workspace_users, LoadedOf(r))} :
          /\ workspace_users' = written.table
          /\ Complete(r, WorkspaceUserEnded(r, written.exc, 0, {}))
    /\ UNCHANGED <<workspaces, projects, project_users, tasks, reminders, seq, users>>

(***************************************************************************)
(* crud/statistics.py                                                      *)
(***************************************************************************)
\* The query is built with func.case([...], else_=0): func.<name> makes a
\* generic SQL function called "case", whose constructor takes no else_
\* keyword.  Building the statement raises TypeError before anything is sent
\* to the database, for every user.
get_user_task_statistics(user_id) == [exc |-> "TypeError", rows |-> {}]

GetUserTaskStatistics(user_id) ==
    /\ last' = Outcome("get_user_task_statistics", user_id, 0, 0, 0,
                       get_user_task_statistics(user_id).exc, 0,
                       get_user_task_statistics(user_id).rows)
    /\ UNCHANGED <<workspaces, projects, project_users, tasks, reminders, seq, reqs, users, workspace_users>>

(***************************************************************************)
(* crud/user.py                                                            *)
(***************************************************************************)
\* the attributes of the mapped class User
UserAttributes ==
    {"id", "telegram_id", "name", "email", "password", "created_at", "updated_at",
     "created_workspaces", "created_projects", "projects", "created_tasks",
     "assigned_tasks", "comments"}

\* the keywords create_user passes to the constructor of User
UserKeywords == {"email", "username", "password"}

\* what create_user and update_user yield: the exception, the table and the
\* ids of the rows returned
UserResult(exc, table, ids) == [exc |-> exc, table |-> table, ids |-> ids]

\* the unique index on users.email
EmailTaken(email, except) == \E x \in users : x.email = email /\ x.id # except

\* The declarative constructor accepts the mapped attributes only and raises
\* TypeError for any other keyword, before the session is touched.  With
\* accepted keywords the row is inserted unless the unique index on email
\* refuses it (IntegrityError, rolled back).
create_user(user_data) ==
    LET id == 1 + Cardinality(users)
    IN  IF ~(UserKeywords \subseteq UserAttributes)
        THEN UserResult("TypeError", users, {})
        ELSE IF EmailTaken(user_data.email, NoneId)
        THEN UserResult("IntegrityError", users, {})
        ELSE UserResult("", users \cup {User(id, user_data.email,
                                             hash_password(user_data.password))}, {id})

\* up to await db.commit(): db.get, then setattr for every field the payload
\* was given (user_data.dict(exclude_unset=True)), a field given as null
\* included: the email becomes None, the password hash_password(None).
\* username is no mapped attribute and reaches no statement.  Returns None
\* when there is no such row.
update_user(user_id, user_data) ==
    LET user == RowById(users, user_id)
    IN  IF user = {} THEN Result("", 0, "", {}, {})
        ELSE Result("", 0, "commit", user,
                    {[x EXCEPT !.email = IF "email" \in user_data.fields_set
                                         THEN user_data.email ELSE @,
                               !.password = IF "password" \in user_data.fields_set
                                            THEN hash_password(user_data.password)
                                            ELSE @] : x \in user})

\* the flush of the changed user: UPDATE users SET ... WHERE id = loaded.id.
\* On a row that is still there it fails on an email that is NULL (the
\* column is NOT NULL) and on one another row holds; when the row is gone
\* it matches nothing and raises StaleDataError.
FlushUpdateUser(loaded, object) ==
    IF /\ RowById(users, loaded.id) # {}
       /\ object.email # loaded.email
       /\ (object.email = NoneId \/ EmailTaken(object.email, loaded.id))
    THEN Written(IntegrityError, users)
    ELSE FlushUpdate(users, loaded, object)

UpdateUser(user_id, user_data) ==
    \E res \in {update_user(user_id, user_data)} :
        /\ IF res.pc = ""
           THEN Return(Outcome("update_user", 0, 0, user_id, 0, res.exc, 0, {user_data}))
           ELSE Suspend(Request("update_user", res.pc, 0, 0, user_id, 0, res.status,
                                res.loaded, res.object, {user_data}))
        /\ UNCHANGED <<workspaces, projects, project_users, tasks, reminders, seq, users,
                       workspace_users>>

\* await db.commit() of update_user; IntegrityError is rolled back and raised
\* again, StaleDataError is not caught
UpdateUserCommit(r) ==
    /\ Running(r) /\ r.op = "update_user" /\ r.pc = "commit"
    /\ \E written \in {FlushUpdateUser(LoadedOf(r), ObjectOf(r))} :
          /\ users' = written.table
          /\ IF written.exc # ""
             THEN Complete(r, Ended(r, written.exc, r.data))
             ELSE Continue(r, [r EXCEPT !.pc = "refresh"])
    /\ UNCHANGED <<workspaces, projects, project_users, tasks, reminders, seq,
                   workspace_users>>

\* await db.refresh(user)
UpdateUserRefresh(r) ==
    /\ Running(r) /\ r.op = "update_user" /\ r.pc = "refresh"
    /\ Complete(r, Ended(r, Refresh(users, ObjectOf(r).id), r.data))
    /\ UNCHANGED <<workspaces, projects, project_users, tasks, reminders, seq, users,
                   workspace_users>>

\* the User object db.get yields: created_workspaces, created_projects,
\* created_tasks and assigned_tasks are lazy="selectin", so the row comes
\* with the keys of those rows as they are when it is loaded; projects (the
\* membership rows) is lazy="noload" and stays empty
LoadedUser(user) ==
    [id |-> user.id, email |-> user.email, password |-> user.password,
     created_workspaces |-> {x.id : x \in {y \in workspaces : y.created_by = user.id}},
     created_projects |-> {x.id : x \in {y \in projects : y.created_by = user.id}},
     created_tasks |-> {x.id : x \in {y \in tasks : y.created_by = user.id}},
     assigned_tasks |-> {x.id : x \in {y \in tasks : y.assigned_to = user.id}}]

\* up to await db.commit(); returns False when there is no such row.  await
\* db.delete(user) marks the loaded object: no relationship of User
\* cascades the delete.
delete_user(user_id) ==
    LET user == RowById(users, user_id)
    IN  IF user = {} THEN Result("", 0, "", {}, {})
        ELSE Result("", 0, "commit", {LoadedUser(x) : x \in user}, {})

\* what the flush of a deleted user yields: the exception and the tables
UserTables(exc, us, ws, ps, pus, ts, wus) ==
    [exc |-> exc, users |-> us, workspaces |-> ws, projects |-> ps,
     project_users |-> pus, tasks |-> ts, workspace_users |-> wus]

\* The flush of db.delete(user).  The session first sets the foreign key to
\* NULL on the rows the user was loaded with: created_by of the projects and
\* tasks the user created is NOT NULL and refuses it, assigned_to of the
\* tasks assigned to the user takes it; the Workspace model is not part of
\* this tree, so created_by of the user's workspaces takes it or refuses it.
\* Then the row is deleted and the rows the session has not loaded are the
\* database's: project_users.user_id and projects.created_by are ON DELETE
\* CASCADE (a removed project takes its membership rows with it, and a task
\* in it refuses the delete, as tasks.project_id has no ON DELETE), the two
\* keys of tasks have no ON DELETE and refuse it; workspaces and
\* workspace_users that still name the user go with it (the workspaces with
\* their projects and member rows) or refuse the delete.  Yields the set of
\* possible results.
FlushDeleteUser(loaded) ==
    LET unchanged(exc) == UserTables(exc, users, workspaces, projects, project_users,
                                     tasks, workspace_users)
        detachWorkspaces == Detach(loaded.created_workspaces, workspaces, TRUE)
                                \cup Detach(loaded.created_workspaces, workspaces, FALSE)
        detachProjects == Detach(loaded.created_projects, projects, FALSE)
        detachCreated == Detach(loaded.created_tasks, tasks, FALSE)
        detachAssigned == Detach(loaded.assigned_tasks, tasks, TRUE)
        raised == (detachWorkspaces \cup detachProjects \cup detachCreated
                      \cup detachAssigned) \ {""}
        ws == {IF x.id \in loaded.created_workspaces
               THEN [x EXCEPT !.created_by = NoneId] ELSE x : x \in workspaces}
        ts == {IF x.id \in loaded.assigned_tasks
               THEN [x EXCEPT !.assigned_to = NoneId] ELSE x : x \in tasks}
        theirs == {x \in ws : x.created_by = loaded.id}
        wsIds == {x.id : x \in theirs}
        mine == {r \in workspace_users : r.user_id = loaded.id \/ r.workspace_id \in wsIds}
        gone == {x \in projects : x.created_by = loaded.id \/ x.workspace_id \in wsIds}
        ids == {x.id : x \in gone}
        refused == \E t \in ts : \/ t.created_by = loaded.id
                                 \/ t.assigned_to = loaded.id
                                 \/ t.project_id \in ids
        removed == UserTables("", users \ RowById(users, loaded.id), ws \ theirs,
                              projects \ gone,
                              {r \in project_users :
                                  r.user_id # loaded.id /\ r.project_id \notin ids},
                              ts, workspace_users \ mine)
        deleted == IF RowById(users, loaded.id) = {}
                   THEN {UserTables("", users, ws, projects, project_users, ts,
                                    workspace_users)}
                   ELSE (IF refused THEN {} ELSE {removed})
                        \cup (IF refused \/ theirs # {} \/ mine # {}
                              THEN {unchanged(IntegrityError)} ELSE {})
    IN  {unchanged(exc) : exc \in raised}
        \cup (IF {""} \subseteq (detachWorkspaces \cap detachProjects
                                    \cap detachCreated \cap detachAssigned)
              THEN deleted ELSE {})

DeleteUser(user_id) ==
    \E res \in {delete_user(user_id)} :
        /\ IF res.pc = ""
           THEN Return(Outcome("delete_user", 0, 0, user_id, 0, res.exc, 0,
                               {[id |-> user_id, found |-> FALSE]}))
           ELSE Suspend(Request("delete_user", res.pc, 0, 0, user_id, 0, res.status,
                                res.loaded, res.object,
                                {[id |-> user_id, found |-> TRUE]}))
        /\ UNCHANGED <<workspaces, projects, project_users, tasks, reminders, seq, users,
                       workspace_users>>

\* await db.commit() of delete_user
DeleteUserCommit(r) ==
    /\ Running(r) /\ r.op = "delete_user" /\ r.pc = "commit"
    /\ \E res \in FlushDeleteUser(LoadedOf(r)) :
          /\ users' = res.users
          /\ workspaces' = res.workspaces
          /\ projects' = res.projects
          /\ project_users' = res.project_users
          /\ tasks' = res.tasks
          /\ workspace_users' = res.workspace_users
          /\ Complete(r, Ended(r, res.exc, r.data))
    /\ UNCHANGED <<reminders, seq>>

(***************************************************************************)
(* routers/api/auth.py                                                     *)
(***************************************************************************)
\* POST /auth/register: IntegrityError and TypeError of create_user both end
\* in 400; tokens are made for the new user only after create_user returned.
\* create_user raises its TypeError before its first await, so the handler
\* gives up the event loop nowhere.
register(user_data) ==
    \E res \in {create_user(user_data)} :
        /\ users' = res.table
        /\ last' = Outcome("register", 0, 0, 0, 0,
                           IF res.exc = "" THEN "" ELSE "HTTPException",
                           IF res.exc = "" THEN HTTP_200_OK ELSE HTTP_400_BAD_REQUEST,
                           {[email |-> user_data.email, tokens |-> res.ids,
                             cause |-> res.exc]})
        /\ UNCHANGED <<workspaces, projects, project_users, tasks, reminders, seq, reqs, workspace_users>>

\* select(User).where(User.email == email)
get_user_by_email(email) == {x \in users : x.email = email}

\* app/core/security.py is not part of this tree: a password verifies against
\* the hash hash_password made of it and against no other
verify_password(password, hashed) == hashed = hash_password(password)

\* POST /auth/login: 401 for an unknown email or a wrong password, else an
\* access token whose sub is the id of the user found
login(user_data) ==
    LET found == get_user_by_email(user_data.email)
        ok == {x \in found : verify_password(user_data.password, x.password)}
    IN  /\ Cardinality(found) <= 1
        /\ last' = Outcome("login", 0, 0, 0, 0,
                           IF ok = {} THEN "HTTPException" ELSE "",
                           IF ok = {} THEN HTTP_401_UNAUTHORIZED ELSE HTTP_200_OK,
                           {[email |-> user_data.email, tokens |-> {x.id : x \in ok},
                             cause |-> user_data.password]})
        /\ UNCHANGED <<workspaces, projects, project_users, tasks, reminders, seq, reqs,
                       users, workspace_users>>

(***************************************************************************)
(* routers/dependencies/auth.py                                            *)
(***************************************************************************)
\* digests are told apart by what went into them
sha256(x) == <<"sha256", x>>

hmac_new(key, msg) == <<"hmac", key, msg>>

\* "\n".join(f"{k}={v}" for k, v in sorted(auth_data.items())): the lines in
\* the order of their keys; a field that is None is rendered as the text None
data_check_string(auth_data) ==
    <<<<"auth_date", auth_data.auth_date>>, <<"first_name", auth_data.first_name>>,
      <<"id", auth_data.id>>, <<"last_name", auth_data.last_name>>,
      <<"photo_url", auth_data.photo_url>>, <<"username", auth_data.username>>>>

\* the settings' telegram_bot_token
telegram_bot_token == "bot-token"

\* auth_data is the payload without its hash; the digest is then compared
\* with auth_data.get("hash"), which is None (<<>>) for the filtered dict
verify_telegram_data(data, bot_token) ==
    LET auth_data == [k \in DOMAIN data \ {"hash"} |-> data[k]]
        secret_key == sha256(bot_token)
        hmac_hash == hmac_new(secret_key, data_check_string(auth_data))
    IN  hmac_hash = (IF "hash" \in DOMAIN auth_data THEN auth_data.hash ELSE <<>>)

\* crud/user.py of this tree has no get_user_by_telegram_id.  No operation
\* writes users.telegram_id (create_user passes none, UserUpdate has no such
\* field), so the lookup finds no row.
get_user_by_telegram_id(telegram_id) == {}

\* POST /auth/telegram, for a body FastAPI has validated as a
\* TelegramAuthRequest (hash is a required string; a body without it is
\* answered 422 before the handler runs): 400 unless the payload verifies;
\* then the user is looked up and, when missing, create_user is called with
\* a dict, whose first statement reads user_data.password: AttributeError.
telegram_auth(telegram_data) ==
    LET found == get_user_by_telegram_id(telegram_data.id)
        exc == IF ~verify_telegram_data(telegram_data, telegram_bot_token)
               THEN "HTTPException"
               ELSE IF found = {} THEN "AttributeError" ELSE ""
    IN  /\ last' = Outcome("telegram_auth", 0, 0, 0, 0, exc,
                           IF exc = "HTTPException" THEN HTTP_400_BAD_REQUEST
                           ELSE StatusOf(exc, HTTP_200_OK),
                           {[data |-> telegram_data,
                             tokens |-> IF exc = "" THEN {x.id : x \in found} ELSE {}]})
        /\ UNCHANGED <<workspaces, projects, project_users, tasks, reminders, seq, reqs,
                       users, workspace_users>>


(***************************************************************************)
(* routers/api/project.py                                                  *)
(***************************************************************************)
\* the handler awaits get_workspace_by_id and then calls create_project(db,
\* project_data, current_user), three arguments to a function of two: past
\* its two checks it ends in TypeError before another await
create_project_endpoint(caller, name, w) ==
    LET workspace == get_workspace_by_id(w)
    IN  /\ Return(CASE workspace = {} ->
                          Outcome("create_project_endpoint", caller, 0, 0, 0,
                                  "HTTPException", HTTP_404_NOT_FOUND, {})
                    [] workspace # {}
                          /\ (CHOOSE x \in workspace : TRUE).created_by # caller ->
                          Outcome("create_project_endpoint", caller, 0, 0, 0,
                                  "HTTPException", HTTP_403_FORBIDDEN, {})
                    [] OTHER ->
                          Outcome("create_project_endpoint", caller, 0, 0, 0,
                                  "TypeError", HTTP_500_INTERNAL, {}))
        /\ UNCHANGED <<workspaces, projects, project_users, tasks, reminders, seq, users,
                       workspace_users>>

\* a route behind check_project_access, up to the gate's second await: the
\* project is looked up
check_project_access_project(op, caller, p) ==
    /\ IF ~ProjectExists(p)
       THEN Return(Outcome(op, caller, p, 0, 0, "HTTPException", HTTP_404_NOT_FOUND, {}))
       ELSE Suspend(Request(op, "level", caller, p, 0, 0, HTTP_200_OK, {}, {}, {}))
    /\ UNCHANGED <<workspaces, projects, project_users, tasks, reminders, seq, users,
                   workspace_users>>

\* the second await of check_project_access, and the route up to its next
CheckProjectAccessLevel(r) ==
    /\ Running(r) /\ r.op \in {"get_project", "get_project_tasks"} /\ r.pc = "level"
    /\ \E gate \in {check_project_access_level(r.project_id, r.caller)} :
          IF gate # HTTP_200_OK
          THEN Complete(r, Outcome(r.op, r.caller, r.project_id, 0, 0, GateExc(gate),
                                   gate, {}))
          ELSE Continue(r, [r EXCEPT !.pc = "select"])
    /\ UNCHANGED <<workspaces, projects, project_users, tasks, reminders, seq, users,
                   workspace_users>>

get_project_endpoint(caller, p) == check_project_access_project("get_project", caller, p)

\* await get_project_by_id(db, project_id): 404 when the project is gone
get_project_endpoint_select(r) ==
    /\ Running(r) /\ r.op = "get_project" /\ r.pc = "select"
    /\ Complete(r, IF ~ProjectExists(r.project_id)
                   THEN Outcome(r.op, r.caller, r.project_id, 0, 0, "HTTPException",
                                HTTP_404_NOT_FOUND, {})
                   ELSE Outcome(r.op, r.caller, r.project_id, 0, 0, "", HTTP_200_OK, {}))
    /\ UNCHANGED <<workspaces, projects, project_users, tasks, reminders, seq, users,
                   workspace_users>>

delete_project_endpoint(caller, p) ==
    \E gate \in {check_project_owner(p, caller)} :
        /\ IF gate # HTTP_200_OK
           THEN Return(Outcome("delete_project", caller, p, 0, 0, GateExc(gate), gate, {}))
           ELSE Suspend(Request("delete_project", "select", caller, p, 0, 0,
                                HTTP_204_NO_CONTENT, {}, {}, {}))
        /\ UNCHANGED <<workspaces, projects, project_users, tasks, reminders, seq, users,
                       workspace_users>>

\* the SELECT of delete_project; the route does not look at what it returns
delete_project_endpoint_select(r) ==
    /\ Running(r) /\ r.op = "delete_project" /\ r.pc = "select"
    /\ \E res \in {delete_project(r.project_id)} :
          IF res.pc = ""
          THEN Complete(r, Ended(r, res.exc, {}))
          ELSE Continue(r, [r EXCEPT !.pc = res.pc, !.loaded = res.loaded])
    /\ UNCHANGED <<workspaces, projects, project_users, tasks, reminders, seq, users,
                   workspace_users>>

\* await db.commit() of delete_project
delete_project_endpoint_commit(r) ==
    /\ Running(r) /\ r.op = "delete_project" /\ r.pc = "commit"
    /\ \E res \in FlushDeleteProject(LoadedOf(r)) :
          /\ projects' = res.projects
          /\ project_users' = res.project_users
          /\ Complete(r, Ended(r, res.exc, {}))
    /\ UNCHANGED <<workspaces, tasks, reminders, seq, users, workspace_users>>

\* PATCH /projects/{project_id} up to the await after check_project_owner
update_project_endpoint(caller, p, project_data) ==
    \E gate \in {check_project_owner(p, caller)} :
        /\ IF gate # HTTP_200_OK
           THEN Return(Outcome("update_project_endpoint", caller, p, 0, 0,
                               GateExc(gate), gate,
                               {[id |-> p, name |-> project_data.name]}))
           ELSE Suspend(Request("update_project_endpoint", "select", caller, p, 0, 0,
                                HTTP_200_OK, {}, {},
                                {[id |-> p, name |-> project_data.name]}))
        /\ UNCHANGED <<workspaces, projects, project_users, tasks, reminders, seq, users,
                       workspace_users>>

\* a route declared with a response_model returned what the model does not
\* validate
ResponseValidationError == "ResponseValidationError"

\* the SELECT of update_project, called from the route: the None it returns
\* for a project that is gone is what the route returns, and None is no
\* ProjectResponse
update_project_endpoint_select(r) ==
    /\ Running(r) /\ r.op = "update_project_endpoint" /\ r.pc = "select"
    /\ \E project_data \in r.data :
          \E res \in {update_project(r.project_id, project_data)} :
              IF res.pc = ""
              THEN Complete(r, Ended(r, ResponseValidationError, r.data))
              ELSE Continue(r, [r EXCEPT !.pc = res.pc, !.loaded = res.loaded,
                                         !.object = res.object])
    /\ UNCHANGED <<workspaces, projects, project_users, tasks, reminders, seq, users,
                   workspace_users>>

(***************************************************************************)
(* routers/api/task.py                                                     *)
(***************************************************************************)
create_task_endpoint(caller, task_data) ==
    \E gate \in {check_project_editor_or_owner(task_data.project_id, caller)} :
        /\ IF gate # HTTP_200_OK
           THEN Return(Outcome("create_task", caller, task_data.project_id, 0, 0,
                               GateExc(gate), gate, {task_data}))
           ELSE Suspend(Request("create_task", "enter", caller, task_data.project_id, 0,
                                0, HTTP_201_CREATED, {}, {}, {task_data}))
        /\ UNCHANGED <<workspaces, projects, project_users, tasks, reminders, seq, users,
                       workspace_users>>

\* await create_task(db, task_data, current_user.id), up to its second await
create_task_endpoint_enter(r) ==
    /\ Running(r) /\ r.op = "create_task" /\ r.pc = "enter"
    /\ \E task_data \in r.data : create_task_enter(r, task_data, r.caller)
    /\ UNCHANGED <<workspaces, projects, project_users, tasks, reminders, users,
                   workspace_users>>

get_project_tasks_endpoint(caller, p) ==
    check_project_access_project("get_project_tasks", caller, p)

\* await get_project_tasks(db, project_id)
get_project_tasks_endpoint_select(r) ==
    /\ Running(r) /\ r.op = "get_project_tasks" /\ r.pc = "select"
    /\ \E res \in {get_project_tasks(r.project_id)} :
          Complete(r, Responded(Outcome(r.op, r.caller, r.project_id, 0, 0, res.exc,
                                        StatusOf(res.exc, HTTP_200_OK), {}),
                                res.rows))
    /\ UNCHANGED <<workspaces, projects, project_users, tasks, reminders, seq, users,
                   workspace_users>>

(***************************************************************************)
(* PATCH /tasks/{task_id} and PATCH /tasks/{task_id}/complete.  The routes *)
(* are not among the routers of this tree; they are composed, as the       *)
(* specification describes them, from the gates of permissions.py and      *)
(* update_task: content edits behind the editor gate, the completion       *)
(* toggle behind check_task_completion_permission.  Either gate looks the  *)
(* task up and then reads the caller's level in the task's project.        *)
(***************************************************************************)
\* a task route up to its gate's second await: db.get of the task
TaskGate(op, caller, t, call) ==
    /\ IF ~TaskExists(t)
       THEN Return(Outcome(op, caller, 0, 0, t, "HTTPException", HTTP_404_NOT_FOUND, {}))
       ELSE Suspend(Request(op, "level", caller, 0, 0, t, HTTP_200_OK, {TaskById(t)},
                            {}, {call}))
    /\ UNCHANGED <<workspaces, projects, project_users, tasks, reminders, seq, users,
                   workspace_users>>

update_task_endpoint(caller, t, task_data) ==
    TaskGate("update_task", caller, t, UpdateTaskCall(task_data, TRUE, TRUE))

complete_task_endpoint(caller, t, task_data) ==
    TaskGate("complete_task", caller, t, UpdateTaskCall(task_data, FALSE, TRUE))

\* the gate's second await: the caller's level in the project of the task it
\* loaded
TaskGateLevel(r) ==
    /\ Running(r) /\ r.op \in {"update_task", "complete_task"} /\ r.pc = "level"
    /\ \E gate \in {IF r.op = "complete_task"
                    THEN check_task_completion_permission_level(LoadedOf(r), r.caller)
                    ELSE check_project_editor_or_owner(LoadedOf(r).project_id,
                                                       r.caller)} :
          IF gate # HTTP_200_OK
          THEN Complete(r, Outcome(r.op, r.caller, 0, 0, r.task_id, GateExc(gate), gate,
                                   {}))
          ELSE Continue(r, [r EXCEPT !.pc = "select"])
    /\ UNCHANGED <<workspaces, projects, project_users, tasks, reminders, seq, users,
                   workspace_users>>

\* await update_task(...), up to its await db.commit()
TaskGateSelect(r) ==
    /\ Running(r) /\ r.op \in {"update_task", "complete_task"} /\ r.pc = "select"
    /\ \E call \in r.data :
          update_task_enter(r, r.op, r.caller, r.task_id, call, call.can_edit_content,
                            call.can_update_completion)
    /\ UNCHANGED <<workspaces, projects, project_users, tasks, reminders, seq, users,
                   workspace_users>>

(***************************************************************************)
(* Initial states.                                                         *)
(***************************************************************************)
NoSeq ==
    [workspaces |-> 0, projects |-> 0, project_users |-> 0, tasks |-> 0, reminders |-> 0]

Init ==
    /\ workspaces = {}
    /\ projects = {}
    /\ project_users = {}
    /\ tasks = {}
    /\ reminders = {}
    /\ seq = NoSeq
    /\ reqs = EmptyBag
    /\ last = NoOutcome
    /\ users = InitUsers
    /\ workspace_users = {}

\* the project the membership specifications work on
MemberProjects == {1}

\* User 1 has created workspace 1 and project 1 in it; create_project writes
\* no membership row, so the membership table is still empty.  The project
\* holds one task, created by user 1 and assigned to the last user.
InitMembers ==
    /\ workspaces = {Workspace(1, "w", 1)}
    /\ projects = {Project(p, "p", 1, 1) : p \in MemberProjects}
    /\ project_users = {}
    /\ tasks = {Task(p, "t", NoneStr, OPEN, NONE, NoneId, 1, NumUsers, p, NoneId) :
                   p \in MemberProjects}
    /\ reminders = {}
    /\ seq = [NoSeq EXCEPT !.workspaces = 1, !.projects = 1, !.tasks = 1]
    /\ reqs = EmptyBag
    /\ last = NoOutcome
    /\ users = InitUsers
    /\ workspace_users = {}

\* no coroutine is suspended: the next request finds the event loop free
Serial == reqs = EmptyBag

\* the coroutines suspended at an await
Suspended == BagToSet(reqs)

(***************************************************************************)
(* The membership operations, one request at a time: a request is taken on *)
(* when the one before it has been answered.                               *)
(***************************************************************************)
NextMembers ==
    \/ \E c \in UserIds, p \in MemberProjects, u \in UserIds : Serial /\ send_invite(c, p, u)
    \/ \E r \in Suspended : send_invite_commit(r)
    \/ \E c \in UserIds, p \in MemberProjects : Serial /\ accept_invite(c, p)
    \/ \E r \in Suspended : accept_invite_commit(r)
    \/ \E c \in UserIds, p \in MemberProjects : Serial /\ decline_invite(c, p)
    \/ \E r \in Suspended : decline_invite_commit(r)
    \/ \E p \in MemberProjects, u \in UserIds, l \in AccessLevels :
          Serial /\ CreateProjectUser(p, u, l)
    \/ \E r \in Suspended : CreateProjectUserCommit(r)
    \/ \E r \in Suspended : CreateProjectUserRefresh(r)
    \/ \E p \in MemberProjects, u \in UserIds, l \in AccessLevels :
          Serial /\ UpdateProjectUserRole(p, u, l)
    \/ \E r \in Suspended : UpdateProjectUserRoleCommit(r)
    \/ \E r \in Suspended : UpdateProjectUserRoleRefresh(r)
    \/ \E p \in MemberProjects, u \in UserIds : Serial /\ RemoveUserFromProject(p, u)
    \/ \E r \in Suspended : RemoveUserFromProjectCommit(r)
    \/ \E c \in UserIds, p \in MemberProjects : Serial /\ get_project_endpoint(c, p)
    \/ \E r \in Suspended : CheckProjectAccessLevel(r)
    \/ \E r \in Suspended : get_project_endpoint_select(r)

MemberSpec == InitMembers /\ [][NextMembers]_vars

(***************************************************************************)
(* The membership operations together with the task listing of a project.  *)
(***************************************************************************)
NextInvites ==
    \/ NextMembers
    \/ \E c \in UserIds, p \in MemberProjects : Serial /\ get_project_tasks_endpoint(c, p)
    \/ \E r \in Suspended : get_project_tasks_endpoint_select(r)

InviteSpec == InitMembers /\ [][NextInvites]_vars

(***************************************************************************)
(* The membership operations, with invites sent also for a project id and  *)
(* a user id that name no row.                                             *)
(***************************************************************************)
NextInviteRefs ==
    \/ NextMembers
    \/ \E c \in UserIds, p \in MemberProjects \cup {2},
          u \in UserIds \cup {NumUsers + 1} : Serial /\ send_invite(c, p, u)

InviteRefSpec == InitMembers /\ [][NextInviteRefs]_vars

(***************************************************************************)
(* The same with the task statistics of a user.                            *)
(***************************************************************************)
NextStats ==
    \/ NextInvites
    \/ \E u \in UserIds : Serial /\ GetUserTaskStatistics(u)

StatsSpec == InitMembers /\ [][NextStats]_vars

(***************************************************************************)
(* The project lifecycle from an empty database: workspaces, projects,     *)
(* memberships, tasks; one request at a time.                              *)
(***************************************************************************)
TaskCreates ==
    {[name |-> "t", description |-> NoneStr, status |-> NoneStr, priority |-> NoneStr,
      due_date |-> NoneId, project_id |-> p, assigned_to |-> a, parent_task_id |-> par,
      reminder_time |-> rt] :
        p \in ProjectIds, a \in {NoneId} \cup UserIds,
        par \in {NoneId} \cup TaskIds, rt \in {NoneId}}

\* a user id that names a user, and one that names none
UserRefs == UserIds \cup {NumUsers + 1}

\* create_workspace is called with a validated WorkspaceCreate, or with an
\* object that carries created_by as well
NextLifecycle ==
    \/ Serial /\ CreateWorkspace([name |-> "w"])
    \/ \E u \in UserRefs :
          /\ Serial /\ WorkspaceRoom(MaxWorkspaces)
          /\ CreateWorkspace([name |-> "w", created_by |-> u])
    \/ \E r \in Suspended : CreateWorkspaceCommit(r)
    \/ \E r \in Suspended : CreateWorkspaceRefresh(r)
    \/ \E u \in UserRefs, w \in WorkspaceIds : Serial /\ CreateProject("p", w, u)
    \/ \E r \in Suspended : CreateProjectCommit(r)
    \/ \E r \in Suspended : CreateProjectRefresh(r)
    \/ \E c \in UserIds, w \in WorkspaceIds : Serial /\ create_project_endpoint(c, "p", w)
    \/ \E c \in UserIds, p \in ProjectIds : Serial /\ get_project_endpoint(c, p)
    \/ \E r \in Suspended : CheckProjectAccessLevel(r)
    \/ \E r \in Suspended : get_project_endpoint_select(r)
    \/ \E c \in UserIds, p \in ProjectIds : Serial /\ delete_project_endpoint(c, p)
    \/ \E r \in Suspended : delete_project_endpoint_select(r)
    \/ \E r \in Suspended : delete_project_endpoint_commit(r)
    \/ \E p \in ProjectIds, u \in UserIds, l \in AccessLevels :
          Serial /\ CreateProjectUser(p, u, l)
    \/ \E r \in Suspended : CreateProjectUserCommit(r)
    \/ \E r \in Suspended : CreateProjectUserRefresh(r)
    \/ \E c \in UserIds, task_data \in TaskCreates :
          Serial /\ create_task_endpoint(c, task_data)
    \/ \E r \in Suspended : create_task_endpoint_enter(r)
    \/ \E r \in Suspended : CreateTaskFlush(r)
    \/ \E r \in Suspended : CreateTaskCommit(r)
    \/ \E r \in Suspended : CreateTaskRefresh(r)
    \/ \E c \in UserIds, p \in ProjectIds : Serial /\ get_project_tasks_endpoint(c, p)
    \/ \E r \in Suspended : get_project_tasks_endpoint_select(r)

Spec == Init /\ [][NextLifecycle]_vars

(***************************************************************************)
(* Task updates in one project: the first and the last user hold at most   *)
(* one membership row each, at any level, the users between them none; the *)
(* project's task is assigned to the last user.                            *)
(***************************************************************************)
InitTasks ==
    /\ workspaces = {Workspace(1, "w", 1)}
    /\ projects = {Project(1, "p", 1, 1)}
    /\ \E level \in [{1, NumUsers} -> AccessLevels \cup {NoneStr}] :
          project_users = {ProjectUser(u, 1, u, level[u]) :
                              u \in {x \in {1, NumUsers} : level[x] # NoneStr}}
    /\ tasks = {Task(1, "t", NoneStr, OPEN, NONE, NoneId, 1, NumUsers, 1, NoneId)}
    /\ reminders = {}
    /\ seq = [NoSeq EXCEPT !.workspaces = 1, !.projects = 1, !.project_users = NumUsers,
                           !.tasks = 1]
    /\ reqs = EmptyBag
    /\ last = NoOutcome
    /\ users = InitUsers
    /\ workspace_users = {}

TaskUpdates ==
    {[name |-> n, description |-> NoneStr, status |-> NoneStr, priority |-> NoneStr,
      due_date |-> NoneId, assigned_to |-> a, is_completed |-> c,
      parent_task_id |-> NoneId] :
        n \in {NoneStr, "n"}, a \in {NoneId} \cup UserIds,
        c \in {<<>>, <<TRUE>>, <<FALSE>>}}

\* a request names a task that exists or the first id not yet in use
TaskRefs == {x.id : x \in tasks} \cup {seq.tasks + 1}

NextTasks ==
    \/ \E c \in UserIds, t \in TaskRefs, task_data \in TaskUpdates :
          Serial /\ update_task_endpoint(c, t, task_data)
    \/ \E c \in UserIds, t \in TaskRefs, task_data \in TaskUpdates :
          Serial /\ complete_task_endpoint(c, t, task_data)
    \/ \E r \in Suspended : TaskGateLevel(r)
    \/ \E r \in Suspended : TaskGateSelect(r)
    \/ \E r \in Suspended : UpdateTaskCommit(r)
    \/ \E r \in Suspended : UpdateTaskRefresh(r)

TaskSpec == InitTasks /\ [][NextTasks]_vars

(***************************************************************************)
(* The task store of one project, driven through crud/task.py directly.    *)
(***************************************************************************)
\* user 1 has created workspace 1 and project 1; the project has no task yet
InitTree ==
    /\ workspaces = {Workspace(1, "w", 1)}
    /\ projects = {Project(1, "p", 1, 1)}
    /\ project_users = {}
    /\ tasks = {}
    /\ reminders = {}
    /\ seq = [NoSeq EXCEPT !.workspaces = 1, !.projects = 1]
    /\ reqs = EmptyBag
    /\ last = NoOutcome
    /\ users = InitUsers
    /\ workspace_users = {}

\* a task id that exists, may exist later or was deleted, and one never used
TreeRefs == TaskIds \cup {MaxTasks + 1}

\* the assignee is left out, 0, a user or no user; a payload without
\* assignee, parent and reminder may give a status, by the name of a member
\* or by its value
TreeCreates ==
    {task_data \in
        {[name |-> "t", description |-> NoneStr, status |-> s, priority |-> NoneStr,
          due_date |-> NoneId, project_id |-> 1, assigned_to |-> a,
          parent_task_id |-> par, reminder_time |-> rt] :
            s \in {NoneStr, "OPEN", "Gotovo"}, a \in {NoneId, 0, 1, NumUsers + 1},
            par \in {NoneId, 0} \cup TreeRefs, rt \in {NoneId, 1}} :
        /\ task_data.status # NoneStr =>
               /\ task_data.assigned_to = NoneId
               /\ task_data.parent_task_id = NoneId
               /\ task_data.reminder_time = NoneId
        /\ task_data.assigned_to = NumUsers + 1 =>
               task_data.parent_task_id = NoneId /\ task_data.reminder_time = NoneId}

TreeUpdates ==
    {[name |-> NoneStr, description |-> NoneStr, status |-> NoneStr, priority |-> NoneStr,
      due_date |-> NoneId, assigned_to |-> NoneId, is_completed |-> <<>>,
      parent_task_id |-> par] : par \in {NoneId} \cup TreeRefs}

NextTree ==
    \/ \E task_data \in TreeCreates : Serial /\ CreateTask(1, task_data)
    \/ \E r \in Suspended : CreateTaskFlush(r)
    \/ \E r \in Suspended : CreateTaskCommit(r)
    \/ \E r \in Suspended : CreateTaskRefresh(r)
    \/ \E t \in TreeRefs, task_data \in TreeUpdates :
          Serial /\ UpdateTask(t, task_data, TRUE, TRUE)
    \/ \E r \in Suspended : UpdateTaskCommit(r)
    \/ \E r \in Suspended : UpdateTaskRefresh(r)
    \/ \E t \in TreeRefs : Serial /\ DeleteTask(t)
    \/ \E r \in Suspended : DeleteTaskCommit(r)
    \/ \E t \in TreeRefs : Serial /\ GetTaskById(t)

TreeSpec == InitTree /\ [][NextTree]_vars

(***************************************************************************)
(* Partial updates of one task, one project and one workspace through the  *)
(* crud functions, by a caller who may edit content and completion.        *)
(***************************************************************************)
InitCrud ==
    /\ workspaces = {Workspace(1, "w", 1)}
    /\ projects = {Project(1, "p", 1, 1)}
    /\ project_users = {ProjectUser(1, 1, 1, "admin")}
    /\ tasks = {Task(1, "t", NoneStr, OPEN, NONE, NoneId, 1, NoneId, 1, NoneId)}
    /\ reminders = {}
    /\ seq = [NoSeq EXCEPT !.workspaces = 1, !.projects = 1, !.project_users = 1,
                           !.tasks = 1]
    /\ reqs = EmptyBag
    /\ last = NoOutcome
    /\ users = InitUsers
    /\ workspace_users = {}

CrudUpdates ==
    {[name |-> n, description |-> NoneStr, status |-> s, due_date |-> d,
      priority |-> NoneStr, is_completed |-> c, assigned_to |-> a,
      parent_task_id |-> NoneId] :
        n \in {NoneStr, "u"}, s \in {NoneStr, "DONE", "Gotovo"},
        d \in {NoneId, 2}, c \in {<<>>, <<TRUE>>}, a \in {NoneId, 0, 1}}

CrudNames == {[name |-> n] : n \in {NoneStr, "p", "q"}}

NextCrud ==
    \/ \E t \in {1, 2}, task_data \in CrudUpdates :
          Serial /\ UpdateTask(t, task_data, TRUE, TRUE)
    \/ \E r \in Suspended : UpdateTaskCommit(r)
    \/ \E r \in Suspended : UpdateTaskRefresh(r)
    \/ \E p \in ProjectIds \cup {MaxProjects + 1}, project_data \in CrudNames :
          Serial /\ UpdateProject(p, project_data)
    \/ \E c \in UserIds, p \in ProjectIds \cup {MaxProjects + 1},
          project_data \in CrudNames :
          Serial /\ update_project_endpoint(c, p, project_data)
    \/ \E r \in Suspended : update_project_endpoint_select(r)
    \/ \E r \in Suspended : UpdateProjectCommit(r)
    \/ \E r \in Suspended : UpdateProjectRefresh(r)
    \/ \E w \in WorkspaceIds \cup {MaxWorkspaces + 1}, workspace_data \in CrudNames :
          Serial /\ UpdateWorkspace(w, workspace_data)
    \/ \E r \in Suspended : UpdateWorkspaceCommit(r)
    \/ \E r \in Suspended : UpdateWorkspaceRefresh(r)

CrudSpec == InitCrud /\ [][NextCrud]_vars

(***************************************************************************)
(* Registration and profile updates, one request at a time.                *)
(***************************************************************************)
UserCreates == {[email |-> e, username |-> NoneStr, password |-> "pw"] : e \in Emails}

UserUpdates ==
    {x \in [email : Emails \cup {NoneId}, password : {NoneStr, "new"},
            fields_set : SUBSET {"email", "password"}] :
        /\ "email" \notin x.fields_set => x.email = NoneId
        /\ "password" \notin x.fields_set => x.password = NoneStr}

NextAuth ==
    \/ \E user_data \in UserCreates : Serial /\ register(user_data)
    \/ \E u \in UserIds \cup {NumUsers + 1}, user_data \in UserUpdates :
          Serial /\ UpdateUser(u, user_data)
    \/ \E r \in Suspended : UpdateUserCommit(r)
    \/ \E r \in Suspended : UpdateUserRefresh(r)
    \/ \E u \in UserIds \cup {NumUsers + 1} : Serial /\ DeleteUser(u)
    \/ \E r \in Suspended : DeleteUserCommit(r)

\* user 1 has a workspace, a project in it and a task in the project; the
\* last user is a member of the project and the task's assignee
InitAuth ==
    /\ workspaces = {Workspace(1, "w", 1)}
    /\ projects = {Project(1, "p", 1, 1)}
    /\ project_users = {ProjectUser(1, 1, 1, "admin"), ProjectUser(2, 1, NumUsers, "member")}
    /\ tasks = {Task(1, "t", NoneStr, OPEN, NONE, NoneId, 1, NumUsers, 1, NoneId)}
    /\ reminders = {}
    /\ seq = [NoSeq EXCEPT !.workspaces = 1, !.projects = 1, !.project_users = 2,
                           !.tasks = 1]
    /\ reqs = EmptyBag
    /\ last = NoOutcome
    /\ users = InitUsers
    /\ workspace_users = {}

AuthSpec == InitAuth /\ [][NextAuth]_vars

(***************************************************************************)
(* Registration, profile updates and password login.                       *)
(***************************************************************************)
UserLogins == {[email |-> e, password |-> pw] : e \in Emails, pw \in {"pw", "new"}}

NextLogin ==
    \/ NextAuth
    \/ \E user_data \in UserLogins : Serial /\ login(user_data)

LoginSpec == Init /\ [][NextLogin]_vars

(***************************************************************************)
(* The same with the Telegram login.  hash is a required field of          *)
(* TelegramAuthRequest, so every payload that reaches the handler carries  *)
(* a digest: the one Telegram makes with the bot token, or one made with   *)
(* another token.                                                          *)
(***************************************************************************)
TelegramFields ==
    {[id |-> i, first_name |-> "Ann", last_name |-> l, username |-> NoneStr,
      photo_url |-> NoneStr, auth_date |-> d] :
        i \in 1..2, l \in {NoneStr, "Lee"}, d \in 1..2}

Signed(fields, h) ==
    [id |-> fields.id, first_name |-> fields.first_name, last_name |-> fields.last_name,
     username |-> fields.username, photo_url |-> fields.photo_url,
     auth_date |-> fields.auth_date, hash |-> h]

TelegramAuthRequests ==
    {Signed(f, hmac_new(sha256(t), data_check_string(f))) :
        f \in TelegramFields, t \in {telegram_bot_token, "other-token"}}

NextTelegram ==
    \/ NextLogin
    \/ \E telegram_data \in TelegramAuthRequests :
          Serial /\ telegram_auth(telegram_data)

TelegramSpec == Init /\ [][NextTelegram]_vars

(***************************************************************************)
(* Workspaces from an empty database: created, renamed, listed, deleted;   *)
(* one request at a time.                                                  *)
(***************************************************************************)
WorkspaceNames == {"w", "v"}

NextWorkspaces ==
    \/ \E n \in WorkspaceNames : Serial /\ CreateWorkspace([name |-> n])
    \/ \E u \in UserRefs, n \in WorkspaceNames :
          /\ Serial /\ WorkspaceRoom(MaxListed)
          /\ CreateWorkspace([name |-> n, created_by |-> u])
    \/ \E r \in Suspended : CreateWorkspaceCommit(r)
    \/ \E r \in Suspended : CreateWorkspaceRefresh(r)
    \/ \E w \in 1..(MaxListed + 1), workspace_data \in {[name |-> n] : n \in {NoneStr, "q"}} :
          Serial /\ UpdateWorkspace(w, workspace_data)
    \/ \E r \in Suspended : UpdateWorkspaceCommit(r)
    \/ \E r \in Suspended : UpdateWorkspaceRefresh(r)
    \/ \E w \in 1..(MaxListed + 1) : Serial /\ DeleteWorkspace(w)
    \/ \E r \in Suspended : DeleteWorkspaceCommit(r)
    \/ \E u \in UserIds \cup {NumUsers + 1} : Serial /\ GetUserWorkspaces(u)

WorkspaceSpec == Init /\ [][NextWorkspaces]_vars

(***************************************************************************)
(* Members of one workspace: rows written by create_workspace_user, then   *)
(* the four routes of the workspace user router, for every caller.         *)
(***************************************************************************)
InitWorkspaceUsers ==
    /\ workspaces = {Workspace(1, "w", 1)}
    /\ projects = {}
    /\ project_users = {}
    /\ tasks = {}
    /\ reminders = {}
    /\ seq = [NoSeq EXCEPT !.workspaces = 1]
    /\ reqs = EmptyBag
    /\ last = NoOutcome
    /\ users = InitUsers
    /\ workspace_users = {}

WorkspaceRefs == {1, 2}

NextWorkspaceUsers ==
    \/ \E w \in WorkspaceRefs, u \in UserRefs, l \in {"admin", "member"} :
          Serial /\ CreateWorkspaceUser(w, u, l)
    \/ \E r \in Suspended : CreateWorkspaceUserRefresh(r)
    \/ \E c \in UserIds, w \in WorkspaceRefs, u \in UserRefs :
          Serial /\ add_user_to_workspace(c, w, u)
    \/ \E r \in Suspended : add_user_to_workspace_commit(r)
    \/ \E c \in UserIds, w \in WorkspaceRefs : Serial /\ list_workspace_users(c, w)
    \/ \E r \in Suspended : list_workspace_users_select(r)
    \/ \E c \in UserIds, w \in WorkspaceRefs, u \in UserRefs, l \in {"admin", "viewer"} :
          Serial /\ update_user_role(c, w, u, l)
    \/ \E r \in Suspended : update_user_role_select(r)
    \/ \E r \in Suspended : UpdateWorkspaceUserRoleCommit(r)
    \/ \E r \in Suspended : UpdateWorkspaceUserRoleRefresh(r)
    \/ \E c \in UserIds, w \in WorkspaceRefs, u \in UserRefs :
          Serial /\ delete_user_from_workspace(c, w, u)
    \/ \E r \in Suspended : delete_user_from_workspace_select(r)
    \/ \E r \in Suspended : delete_user_from_workspace_commit(r)

WorkspaceUserSpec == InitWorkspaceUsers /\ [][NextWorkspaceUsers]_vars

(***************************************************************************)
(* Task creation through the route in two projects of one workspace: user  *)
(* 1 is member of project 1 only, user 2 is member of project 2 only.      *)
(***************************************************************************)
InitCross ==
    /\ workspaces = {Workspace(1, "w", 1)}
    /\ projects = {Project(1, "p", 1, 1), Project(2, "q", 1, 2)}
    /\ project_users = {ProjectUser(1, 1, 1, "member"), ProjectUser(2, 2, 2, "member")}
    /\ tasks = {}
    /\ reminders = {}
    /\ seq = [NoSeq EXCEPT !.workspaces = 1, !.projects = 2, !.project_users = 2]
    /\ reqs = EmptyBag
    /\ last = NoOutcome
    /\ users = InitUsers
    /\ workspace_users = {}

CrossCreates ==
    {[name |-> "t", description |-> NoneStr, status |-> NoneStr, priority |-> NoneStr,
      due_date |-> NoneId, project_id |-> p, assigned_to |-> a, parent_task_id |-> par,
      reminder_time |-> rt] :
        p \in {1, 2}, a \in {NoneId, 1}, par \in {NoneId} \cup TreeRefs, rt \in {NoneId, 1}}

NextCross ==
    \/ \E c \in UserIds, task_data \in CrossCreates :
          Serial /\ create_task_endpoint(c, task_data)
    \/ \E r \in Suspended : create_task_endpoint_enter(r)
    \/ \E r \in Suspended : CreateTaskFlush(r)
    \/ \E r \in Suspended : CreateTaskCommit(r)
    \/ \E r \in Suspended : CreateTaskRefresh(r)
    \/ \E c \in UserIds, p \in {1, 2} : Serial /\ get_project_tasks_endpoint(c, p)
    \/ \E r \in Suspended : CheckProjectAccessLevel(r)
    \/ \E r \in Suspended : get_project_tasks_endpoint_select(r)

CrossSpec == InitCross /\ [][NextCross]_vars

(***************************************************************************)
(* update_task called on one task with every combination of its two flags. *)
(***************************************************************************)
\* the content fields a payload gives a value
GivenContent(task_data) ==
    {i \in 1..6 : <<task_data.name # NoneStr, task_data.description # NoneStr,
                    task_data.priority # NoneStr, task_data.due_date # NoneId,
                    task_data.status # NoneStr, task_data.assigned_to # NoneId>>[i]}

\* payloads that give no content field, one of them, or all six
FlagUpdates ==
    {task_data \in
        {[name |-> n, description |-> d, status |-> s, priority |-> pr, due_date |-> dd,
          assigned_to |-> a, is_completed |-> c, parent_task_id |-> NoneId] :
            n \in {NoneStr, "u"}, d \in {NoneStr, "d"}, s \in {NoneStr, "DONE"},
            pr \in {NoneStr, "HIGH"}, dd \in {NoneId, 2}, a \in {NoneId, 1},
            c \in {<<>>, <<TRUE>>, <<FALSE>>}} :
        Cardinality(GivenContent(task_data)) \in {0, 1, 6}}

NextFlags ==
    \/ \E t \in {1, 2}, task_data \in FlagUpdates, can_edit_content \in BOOLEAN,
          can_update_completion \in BOOLEAN :
          Serial /\ UpdateTask(t, task_data, can_edit_content, can_update_completion)
    \/ \E r \in Suspended : UpdateTaskCommit(r)
    \/ \E r \in Suspended : UpdateTaskRefresh(r)

FlagSpec == InitCrud /\ [][NextFlags]_vars

(***************************************************************************)
(* The functions that write an access level, called with role strings as   *)
(* the schemas admit them: access_level is a str of at most 50 characters. *)
(***************************************************************************)
RoleStrings == AccessLevels \cup {"owner"}

NextRoles ==
    \/ \E c \in UserIds, p \in MemberProjects, u \in UserIds : Serial /\ send_invite(c, p, u)
    \/ \E r \in Suspended : send_invite_commit(r)
    \/ \E c \in UserIds, p \in MemberProjects : Serial /\ accept_invite(c, p)
    \/ \E r \in Suspended : accept_invite_commit(r)
    \/ \E c \in UserIds, p \in MemberProjects : Serial /\ decline_invite(c, p)
    \/ \E r \in Suspended : decline_invite_commit(r)
    \/ \E p \in MemberProjects, u \in UserIds, l \in RoleStrings :
          Serial /\ CreateProjectUser(p, u, l)
    \/ \E r \in Suspended : CreateProjectUserCommit(r)
    \/ \E r \in Suspended : CreateProjectUserRefresh(r)
    \/ \E p \in MemberProjects, u \in UserIds, l \in RoleStrings :
          Serial /\ UpdateProjectUserRole(p, u, l)
    \/ \E r \in Suspended : UpdateProjectUserRoleCommit(r)
    \/ \E r \in Suspended : UpdateProjectUserRoleRefresh(r)
    \/ \E w \in WorkspaceIds, u \in UserIds, l \in RoleStrings :
          Serial /\ CreateWorkspaceUser(w, u, l)
    \/ \E r \in Suspended : CreateWorkspaceUserRefresh(r)
    \/ \E w \in WorkspaceIds, u \in UserIds, l \in RoleStrings :
          Serial /\ UpdateWorkspaceUserRole(w, u, l)
    \/ \E r \in Suspended : UpdateWorkspaceUserRoleCommit(r)
    \/ \E r \in Suspended : UpdateWorkspaceUserRoleRefresh(r)

RoleSpec == InitMembers /\ [][NextRoles]_vars

(***************************************************************************)
(* Concurrent requests.  Every request has its own AsyncSession, and every *)
(* await of a handler is a point where another request may run: the six    *)
(* membership operations, taken on while fewer than MaxRequests coroutines *)
(* are suspended, their statements interleaved in every order.             *)
(***************************************************************************)
\* the levels the concurrent requests write
ConcLevels == {"admin", "viewer"}

NextConc ==
    \/ \E c \in UserIds, p \in MemberProjects, u \in UserIds : send_invite(c, p, u)
    \/ \E r \in Suspended : send_invite_commit(r)
    \/ \E c \in UserIds, p \in MemberProjects : accept_invite(c, p)
    \/ \E r \in Suspended : accept_invite_commit(r)
    \/ \E c \in UserIds, p \in MemberProjects : decline_invite(c, p)
    \/ \E r \in Suspended : decline_invite_commit(r)
    \/ \E p \in MemberProjects, u \in UserIds, l \in ConcLevels : CreateProjectUser(p, u, l)
    \/ \E r \in Suspended : CreateProjectUserCommit(r)
    \/ \E r \in Suspended : CreateProjectUserRefresh(r)
    \/ \E p \in MemberProjects, u \in UserIds, l \in ConcLevels :
          UpdateProjectUserRole(p, u, l)
    \/ \E r \in Suspended : UpdateProjectUserRoleCommit(r)
    \/ \E r \in Suspended : UpdateProjectUserRoleRefresh(r)
    \/ \E p \in MemberProjects, u \in UserIds : RemoveUserFromProject(p, u)
    \/ \E r \in Suspended : RemoveUserFromProjectCommit(r)

ConcSpec == InitMembers /\ [][NextConc]_vars

(***************************************************************************)
(* Properties of the access gates and the invite workflow (MemberSpec).    *)
(***************************************************************************)
RowCount(p, u) == Cardinality(SelectProjectUser(p, u))

TasksOf(p) == {t \in tasks : t.project_id = p}

\* C1: in every state reached by membership operations, a user with no
\* membership row in an existing project has no access level there, and every
\* gate (viewer, editor, admin, task completion) refuses the user with 403.
C1_NoRowNoAccess ==
    \A p \in ProjectIds, u \in UserIds :
        (ProjectExists(p) /\ RowCount(p, u) = 0) =>
            /\ get_user_project_access_level(p, u) = NoneStr
            /\ check_project_access(p, u) = HTTP_403_FORBIDDEN
            /\ check_project_viewer_or_higher(p, u) = HTTP_403_FORBIDDEN
            /\ check_project_editor_or_owner(p, u) = HTTP_403_FORBIDDEN
            /\ check_project_owner(p, u) = HTTP_403_FORBIDDEN
            /\ \A t \in TasksOf(p) :
                   check_task_completion_permission(t.id, u) = HTTP_403_FORBIDDEN

\* a user without a row, assignee of a task of the project, was refused by
\* GET /projects/{id} while another user is a member of the project
C1_Witness ==
    /\ last.op = "get_project" /\ last.status = HTTP_403_FORBIDDEN
    /\ RowCount(last.project_id, last.caller) = 0
    /\ \E t \in TasksOf(last.project_id) : t.assigned_to = last.caller
    /\ \E u \in UserIds : RowCount(last.project_id, u) = 1

\* C2: for an existing project, the viewer gates pass exactly for admin,
\* member and viewer, the editor gate exactly for admin and member, the admin
\* gate exactly for admin; invited passes nothing; admin passes all three.
C2_GateLevels ==
    \A p \in ProjectIds, u \in UserIds :
        ProjectExists(p) =>
            LET L == get_user_project_access_level(p, u)
            IN  /\ (check_project_access(p, u) = HTTP_200_OK)
                       <=> L \in {"admin", "member", "viewer"}
                /\ (check_project_viewer_or_higher(p, u) = HTTP_200_OK)
                       <=> L \in {"admin", "member", "viewer"}
                /\ (check_project_editor_or_owner(p, u) = HTTP_200_OK)
                       <=> L \in {"admin", "member"}
                /\ (check_project_owner(p, u) = HTTP_200_OK) <=> L = "admin"
                /\ L \in {"invited", NoneStr} =>
                       /\ check_project_access(p, u) = HTTP_403_FORBIDDEN
                       /\ check_project_viewer_or_higher(p, u) = HTTP_403_FORBIDDEN
                       /\ check_project_editor_or_owner(p, u) = HTTP_403_FORBIDDEN
                       /\ check_project_owner(p, u) = HTTP_403_FORBIDDEN
                /\ check_project_owner(p, u) = HTTP_200_OK =>
                       /\ check_project_editor_or_owner(p, u) = HTTP_200_OK
                       /\ check_project_access(p, u) = HTTP_200_OK
                       /\ check_project_viewer_or_higher(p, u) = HTTP_200_OK

\* one user of the project is a viewer (passes the viewer gate only) while
\* an invited user has just been refused
C2_Witness ==
    /\ last.op = "get_project" /\ last.status = HTTP_403_FORBIDDEN
    /\ get_user_project_access_level(last.project_id, last.caller) = "invited"
    /\ \E u \in UserIds :
           /\ get_user_project_access_level(last.project_id, u) = "viewer"
           /\ check_project_access(last.project_id, u) = HTTP_200_OK
           /\ check_project_editor_or_owner(last.project_id, u) = HTTP_403_FORBIDDEN

\* C3: every gate answers 404 for a project (or workspace) that does not
\* exist, whatever the caller's memberships are.
C3_MissingTargetIs404 ==
    /\ \A p \in ProjectIds, u \in UserIds :
          ~ProjectExists(p) =>
              /\ check_project_access(p, u) = HTTP_404_NOT_FOUND
              /\ check_project_viewer_or_higher(p, u) = HTTP_404_NOT_FOUND
              /\ check_project_editor_or_owner(p, u) = HTTP_404_NOT_FOUND
              /\ check_project_owner(p, u) = HTTP_404_NOT_FOUND
    /\ \A w \in WorkspaceIds, u \in UserIds :
          (~\E x \in workspaces : x.id = w) =>
              check_workspace_owner(w, u) = HTTP_404_NOT_FOUND

\* the content fields of a task row
ContentOf(task) ==
    <<task.name, task.description, task.priority, task.due_date, task.status,
      task.assigned_to>>

\* the completion rule and the content rule as the specification states them
MayComplete(task, u) ==
    \/ get_user_project_access_level(task.project_id, u) \in {"admin", "member"}
    \/ /\ get_user_project_access_level(task.project_id, u) = "viewer"
       /\ task.assigned_to = u

MayEdit(task, u) ==
    get_user_project_access_level(task.project_id, u) \in {"admin", "member"}

\* the row of tasks' with the id of task
RowAfter(task) == CHOOSE x \in tasks' : x.id = task.id

\* C4: a request toggles is_completed of a task exactly when the caller is
\* admin or member of its project, or a viewer who is the task's assignee;
\* every other caller is refused with 403 and is_completed stays as it was.
\* A content field changes only for an admin or member; a viewer's content
\* edit is refused with 403 and changes nothing, also when the viewer is the
\* assignee.  A permitted request is never refused, and its update is applied.
\* Stated on the steps of a request: a task row changes only in the commit of
\* a request for that task, by a caller the rule permits, to the row the
\* payload gives; a request is answered 403 exactly when the rule refuses it.
C4_TaskCompletionRule ==
    [][ /\ \A task \in tasks :
              /\ \E x \in tasks' : x.id = task.id
              /\ RowAfter(task) # task =>
                    \E r \in Suspended :
                        /\ r.pc = "commit" /\ r.task_id = task.id
                        /\ RowAfter(task).is_completed # task.is_completed
                              => MayComplete(task, r.caller)
                        /\ ContentOf(RowAfter(task)) # ContentOf(task)
                              => MayEdit(task, r.caller)
        /\ \A r \in Suspended :
              (r.pc = "commit" /\ r.op \in {"update_task", "complete_task"}) =>
                  \A task \in RowById(tasks, r.task_id), call \in r.data :
                      /\ IF r.op = "complete_task" THEN MayComplete(task, r.caller)
                                                   ELSE MayEdit(task, r.caller)
                      /\ RowAfter(task) =
                            update_task_fields(task, call, r.op = "update_task", TRUE)
        /\ (last'.op \in {"update_task", "complete_task"} /\ TaskExists(last'.task_id)) =>
              LET task == TaskById(last'.task_id)
                  permitted == IF last'.op = "complete_task"
                               THEN MayComplete(task, last'.caller)
                               ELSE MayEdit(task, last'.caller)
              IN  IF permitted
                  THEN last'.exc # "HTTPException"
                  ELSE last'.status = HTTP_403_FORBIDDEN /\ tasks' = tasks
      ]_vars

\* a viewer who is the assignee has completed the task, its content untouched
C4_Witness ==
    /\ last.op = "complete_task" /\ last.status # HTTP_403_FORBIDDEN
    /\ TaskExists(last.task_id)
    /\ get_user_project_access_level(TaskById(last.task_id).project_id, last.caller)
          = "viewer"
    /\ TaskById(last.task_id).assigned_to = last.caller
    /\ TaskById(last.task_id).is_completed
    /\ TaskById(last.task_id).name = "t"

\* C5: under every interleaving of concurrent send_invite_to_project and
\* create_project_user requests there is at most one project_users row per
\* (project_id, user_id).
C5_MembershipUnique ==
    \A p \in ProjectIds, u \in UserIds : RowCount(p, u) <= 1

\* C6: an invite or a create_project_user for a pair that already has a row
\* (of any level) fails, with HTTP 400 resp. ValueError, and leaves the
\* membership table unchanged.  A request that finds a row for its pair is
\* answered before it is ever suspended, and no coroutine of the two
\* operations waits for its commit while its pair has a row.
C6_DuplicateRejected ==
    [][ /\ (last'.op = "send_invite" /\ RowCount(last'.project_id, last'.user_id) > 0)
            => /\ last'.exc = "HTTPException"
               /\ last'.status = HTTP_400_BAD_REQUEST
               /\ project_users' = project_users
        /\ (last'.op = "create_project_user" /\ reqs = EmptyBag
                /\ RowCount(last'.project_id, last'.user_id) > 0)
            => /\ last'.exc = "ValueError"
               /\ project_users' = project_users
        /\ \A r \in BagToSet(reqs') :
              (r.op \in {"send_invite", "create_project_user"} /\ r.pc = "commit")
                  => RowCount(r.project_id, r.user_id) = 0
      ]_vars

\* a second invite was rejected while the first is pending
C6_Witness ==
    /\ last.op = "send_invite" /\ last.status = HTTP_400_BAD_REQUEST
    /\ get_user_project_access_level(last.project_id, last.user_id) = "invited"

InviteOps == {"send_invite", "accept_invite", "decline_invite"}

\* the levels of the rows of a pair in the table
LevelsOf(table, p, u) == {x.access_level : x \in SelectRows(table, p, u)}

\* C7: a successful send to a pair that had no row leaves exactly one row, of
\* level invited; accept by the user so invited succeeds and leaves exactly
\* one row, of level member, and decline succeeds and leaves no row; accept
\* or decline on a pair with no row or with a row that is not 'invited' fails
\* with 404 and changes nothing.
C7_InviteLifecycle ==
    [][ LET p == last'.project_id
            u == last'.caller
        IN  /\ (last'.op = "send_invite" /\ last'.exc = "")
                => /\ RowCount(p, last'.user_id) = 0
                   /\ Cardinality(SelectRows(project_users', p, last'.user_id)) = 1
                   /\ LevelsOf(project_users', p, last'.user_id) = {"invited"}
            /\ (last'.op = "accept_invite"
                    /\ get_user_project_access_level(p, u) = "invited")
                => /\ last'.status = HTTP_200_OK
                   /\ Cardinality(SelectRows(project_users', p, u)) = 1
                   /\ LevelsOf(project_users', p, u) = {"member"}
            /\ (last'.op = "decline_invite"
                    /\ get_user_project_access_level(p, u) = "invited")
                => /\ last'.status = HTTP_200_OK
                   /\ SelectRows(project_users', p, u) = {}
            /\ (last'.op \in {"accept_invite", "decline_invite"}
                    /\ get_user_project_access_level(p, u) # "invited")
                => /\ last'.exc = "HTTPException"
                   /\ last'.status = HTTP_404_NOT_FOUND
                   /\ project_users' = project_users
      ]_vars

\* a member who accepted an invite tried to accept again and got 404
C7_Witness ==
    /\ last.op = "accept_invite" /\ last.status = HTTP_404_NOT_FOUND
    /\ get_user_project_access_level(last.project_id, last.caller) = "member"

\* C8: an invite operation changes the rows of at most its own pair, and only
\* along none -> invited (send), invited -> member (accept), invited -> none
\* (decline); it never yields admin or viewer.
C8_InviteTransitions ==
    [][ (last'.op \in InviteOps \/ \E r \in Suspended : r.op \in InviteOps) =>
          \A p \in ProjectIds, u \in UserIds :
            LET before == get_user_project_access_level(p, u)
                after == ScalarAccessLevel(project_users', p, u)
                own == p = last'.project_id /\ u = last'.user_id
            IN  \/ SelectRows(project_users', p, u) = SelectRows(project_users, p, u)
                \/ /\ own /\ last'.op = "send_invite"
                   /\ before = NoneStr /\ after = "invited"
                \/ /\ own /\ last'.op = "accept_invite" /\ u = last'.caller
                   /\ before = "invited" /\ after = "member"
                \/ /\ own /\ last'.op = "decline_invite" /\ u = last'.caller
                   /\ before = "invited" /\ after = NoneStr
      ]_vars

\* an invite was declined while another user of the project holds a row
C8_Witness ==
    /\ last.op = "decline_invite" /\ last.status = HTTP_200_OK
    /\ RowCount(last.project_id, last.caller) = 0
    /\ \E u \in UserIds : get_user_project_access_level(last.project_id, u) = "admin"

\* C9: an invite is created only for a caller who is admin of the project.
C9_OnlyAdminInvites ==
    (last.op = "send_invite" /\ last.exc = "") =>
        get_user_project_access_level(last.project_id, last.caller) = "admin"

\* C10: once user A has created a project in A's workspace, A's access level
\* in it is admin and A passes the gates of get, delete, task creation and
\* task listing; the creation request of a workspace's owner is answered 201.
C10_CreatorIsAdmin ==
    /\ (last.op = "create_project" /\ last.exc = "") =>
          /\ get_user_project_access_level(last.project_id, last.caller) = "admin"
          /\ check_project_access(last.project_id, last.caller) = HTTP_200_OK
          /\ check_project_owner(last.project_id, last.caller) = HTTP_200_OK
          /\ check_project_editor_or_owner(last.project_id, last.caller) = HTTP_200_OK
    /\ (last.op = "create_project_endpoint"
          /\ last.status \notin {HTTP_404_NOT_FOUND, HTTP_403_FORBIDDEN}) =>
          last.status = HTTP_201_CREATED

\* C11: once an invited user has accepted, the user's level in the project is
\* member and the gate of the task listing lets the user through; a member's
\* request to list the project's tasks is answered 200 with exactly the
\* project's tasks, each under its id, name, project, creator and assignee.
C11_MemberListsTasks ==
    /\ (last.op = "accept_invite" /\ last.status = HTTP_200_OK) =>
          /\ get_user_project_access_level(last.project_id, last.caller) = "member"
          /\ check_project_access(last.project_id, last.caller) = HTTP_200_OK
    /\ (last.op = "get_project_tasks"
          /\ get_user_project_access_level(last.project_id, last.caller) = "member") =>
          /\ last.exc = ""
          /\ last.status = HTTP_200_OK
          /\ {<<x.id, x.name, x.project_id, x.created_by, x.assigned_to>> :
                 x \in last.response}
                = {<<t.id, t.name, t.project_id, t.created_by, t.assigned_to>> :
                      t \in TasksOf(last.project_id)}

\* a user who holds the level member lists the tasks of the project and is
\* answered with its one task
C11_Witness ==
    /\ last.op = "get_project_tasks" /\ last.status = HTTP_200_OK
    /\ get_user_project_access_level(last.project_id, last.caller) = "member"
    /\ \E x \in last.response : x.id = 1 /\ x.project_id = last.project_id

(***************************************************************************)
(* Properties of the task store (TreeSpec, CrudSpec).                      *)
(***************************************************************************)
\* `x or None` of an id: 0 and None are both stored as NULL
StoredId(x) == IF x = 0 THEN NoneId ELSE x

\* a create_task payload names a parent that is no task
MissingParent(task_data) ==
    Truthy(task_data.parent_task_id) /\ ~TaskExists(task_data.parent_task_id)

\* the database accepts the rest of a create_task payload: status and
\* priority are left out or name a member, the assignee is left out, 0 or a
\* user
Accepted(task_data) ==
    /\ task_data.status = NoneStr \/ DbStatus(task_data.status) # DataError
    /\ task_data.priority = NoneStr \/ DbPriority(task_data.priority) # DataError
    /\ StoredId(task_data.assigned_to) = NoneId \/ UserExists(task_data.assigned_to)

\* C12: create_task with a non-zero parent_task_id that names no task fails
\* with 404 and stores neither a task nor a reminder; otherwise exactly one
\* task is stored, with parent NULL for a parent_task_id of 0 or None, with
\* the named parent when it exists, and with assigned_to NULL for 0.  Stated
\* on the steps of a call: a call for a missing parent is answered 404 with
\* nothing written; the commit of a call stores exactly one row, the one the
\* payload describes; every other call whose payload the database accepts
\* returns with that row in the table, and a call whose payload it refuses
\* leaves the tables as they were.
C12_CreateTaskParent ==
    [][ /\ \A task_data \in last'.result :
              (last'.op = "create_task" /\ MissingParent(task_data)) =>
                  /\ last'.exc = "HTTPException"
                  /\ last'.status = HTTP_404_NOT_FOUND
                  /\ tasks' = tasks
                  /\ reminders' = reminders
        /\ \A r \in Suspended :
              r.op = "create_task" =>
                  \A task_data \in r.data :
                      /\ ~MissingParent(task_data)
                      /\ IF r.pc = "commit"
                         THEN \E new \in tasks' \ tasks :
                                  /\ tasks' = tasks \cup {new}
                                  /\ new.id = r.task_id
                                  /\ new.parent_task_id = StoredId(task_data.parent_task_id)
                                  /\ new.assigned_to = StoredId(task_data.assigned_to)
                                  /\ new.parent_task_id # NoneId =>
                                         \E parent \in tasks : parent.id = new.parent_task_id
                         ELSE tasks' = tasks /\ reminders' = reminders
        /\ \A task_data \in last'.result :
              (last'.op = "create_task" /\ ~MissingParent(task_data)) =>
                  IF Accepted(task_data)
                  THEN /\ last'.exc = ""
                       /\ last'.status = HTTP_201_CREATED
                       /\ \E new \in tasks' :
                             /\ new.id = last'.task_id
                             /\ new.parent_task_id = StoredId(task_data.parent_task_id)
                             /\ new.assigned_to = StoredId(task_data.assigned_to)
                  ELSE /\ last'.exc \in {IntegrityError, DataError}
                       /\ tasks' = tasks
                       /\ reminders' = reminders
      ]_vars

\* a task was stored under an existing parent, its assignee 0 stored as NULL
C12_Witness ==
    /\ last.op = "create_task"
    /\ TaskExists(last.task_id)
    /\ TaskExists(TaskById(last.task_id).parent_task_id)
    /\ TaskById(last.task_id).assigned_to = NoneId
    /\ \E task_data \in last.result : task_data.assigned_to = 0

\* C13: update_task with a parent_task_id in the payload moves the task under
\* that parent when it names an existing task, and fails with 404, leaving
\* the task unchanged, when it names no task.
C13_UpdateReparents ==
    [][(last'.op = "update_task" /\ TaskExists(last'.task_id)) =>
        \A task_data \in last'.result :
            task_data.parent_task_id # NoneId =>
                IF TaskExists(task_data.parent_task_id)
                THEN \E x \in tasks' : /\ x.id = last'.task_id
                                       /\ x.parent_task_id = task_data.parent_task_id
                ELSE /\ last'.exc = "HTTPException"
                     /\ last'.status = HTTP_404_NOT_FOUND
                     /\ tasks' = tasks
      ]_vars

\* the task reached from t by following parent_task_id n times
\* (NoneId when the chain ends earlier)
RECURSIVE AncestorAt(_, _)
AncestorAt(t, n) ==
    IF n = 0 THEN t
    ELSE LET up == AncestorAt(t, n - 1)
         IN  IF up # NoneId /\ TaskExists(up) THEN TaskById(up).parent_task_id
             ELSE NoneId

IsOwnAncestor(t) == \E n \in 1..Cardinality(tasks) : AncestorAt(t, n) = t

\* C14: the parent relation is a forest in every reachable state: a task id
\* names one row with one parent_task_id, and following parent_task_id from
\* a task never returns to that task.
C14_Forest ==
    /\ \A x, y \in tasks : x.id = y.id => x = y
    /\ \A x \in tasks : ~IsOwnAncestor(x.id)

\* task 2 is a subtask of task 1 and the last call was an update of task 1
\* asking for task 2 as its parent
C14_Witness ==
    /\ last.op = "update_task" /\ last.task_id = 1
    /\ \E task_data \in last.result : task_data.parent_task_id = 2
    /\ \E x \in tasks : x.id = 2 /\ x.parent_task_id = 1
    /\ TaskExists(1)

\* the rows of t and of every task below t
Subtree(t) ==
    {x \in tasks : x.id = t \/ \E n \in 1..Cardinality(tasks) : AncestorAt(x.id, n) = t}

\* C15: after delete_task(T) succeeds neither T nor any descendant of T
\* exists, no reminder of a removed task remains, and every other task and
\* reminder is unchanged.
C15_DeleteCascades ==
    [][(last'.op = "delete_task" /\ last'.exc = "") =>
        /\ tasks' = tasks \ Subtree(last'.task_id)
        /\ reminders' = {r \in reminders :
                            r.task_id \notin {x.id : x \in Subtree(last'.task_id)}}
      ]_vars

\* C16: every foreign key names an existing row in every reachable state,
\* and a delete that passed its gate never fails because dependants exist:
\* delete_project removes the project together with its tasks and
\* membership rows.
C16_ReferentialIntegrity ==
    /\ \A p \in projects : get_workspace_by_id(p.workspace_id) # {}
    /\ \A x \in tasks : ProjectExists(x.project_id)
    /\ \A x \in tasks : x.parent_task_id # NoneId => TaskExists(x.parent_task_id)
    /\ \A r \in project_users : ProjectExists(r.project_id)
    /\ (last.op = "delete_project" /\ last.exc # "HTTPException") =>
           /\ last.exc = ""
           /\ last.status = HTTP_204_NO_CONTENT
           /\ ~ProjectExists(last.project_id)

\* C17: create_task with a payload whose parent and assignee exist, followed
\* directly by get_task_by_id on the new id, returns normally both times and
\* yields a task with the payload's name, status, priority, due_date and
\* assigned_to, in the payload's project and created by the caller.
C17_RoundTrip ==
    [][(/\ last.op = "create_task" /\ last.exc # "HTTPException"
        /\ \A task_data \in last.result :
              StoredId(task_data.assigned_to) = NoneId
                 \/ UserExists(task_data.assigned_to)
        /\ last'.op = "get_task_by_id" /\ last'.task_id = last.task_id) =>
        /\ last.exc = ""
        /\ last'.exc = ""
        /\ \E task_data \in last.result : \E x \in last'.response :
              /\ x.id = last.task_id
              /\ x.name = task_data.name
              /\ task_data.status # NoneStr => x.status = task_data.status
              /\ task_data.priority # NoneStr => x.priority = task_data.priority
              /\ x.due_date = task_data.due_date
              /\ x.assigned_to = StoredId(task_data.assigned_to)
              /\ x.project_id = task_data.project_id
              /\ x.created_by = last.caller
      ]_vars

\* the value a payload field leaves in a column: the payload's when it is
\* given, the stored one when it is None
Merged(given, none, stored) == IF given # none THEN given ELSE stored

\* what an update_task payload makes of a task by the merge rule: the task
\* as it is returned, with every field the payload gives taking that value
MergedTask(before, task_data) ==
    [before EXCEPT
       !.name = Merged(task_data.name, NoneStr, @),
       !.description = Merged(task_data.description, NoneStr, @),
       !.status = Merged(task_data.status, NoneStr, @),
       !.priority = Merged(task_data.priority, NoneStr, @),
       !.due_date = Merged(task_data.due_date, NoneId, @),
       !.assigned_to = Merged(task_data.assigned_to, NoneId, @),
       !.is_completed = IF task_data.is_completed # <<>>
                        THEN task_data.is_completed[1] ELSE @]

\* the rows of a table after the entity `id` took the name of the payload
Renamed(table, data) ==
    {IF x.id = data.id THEN [x EXCEPT !.name = Merged(data.name, NoneStr, @)] ELSE x :
        x \in table}

\* C18: an update of an existing task, project or workspace keeps every field
\* whose payload value is None, overwrites every field given a value with
\* exactly that value, changes nothing else (id, project, creator, parent,
\* other rows), and applying the same payload again changes nothing.  Stated
\* on the steps of a call: its commit leaves the entity reading as the merge
\* of the payload into what it read before and writes nothing else, the
\* merge is a fixed point of the payload, and no other step of the call
\* writes.  For a task the payloads are those whose assignee, when given,
\* is a user.
C18_MergeRule ==
    [][ \/ /\ \E r \in Suspended : r.pc = "commit"
           /\ \A r \in Suspended :
                 /\ r.op = "update_task" =>
                       \A task_data \in r.data, before \in RowById(tasks, r.task_id) :
                           (task_data.assigned_to # NoneId =>
                                UserExists(task_data.assigned_to)) =>
                               LET expected == MergedTask(model_validate(before),
                                                          task_data)
                               IN  /\ \E after \in tasks' :
                                         /\ model_validate(after) = expected
                                         /\ tasks' \ {after} = tasks \ {before}
                                   /\ MergedTask(expected, task_data) = expected
                 /\ r.op \in {"update_project", "update_project_endpoint"} =>
                       \A project_data \in r.data :
                           /\ projects' = Renamed(projects, project_data)
                           /\ Renamed(projects', project_data) = projects'
                 /\ r.op = "update_workspace" =>
                       \A workspace_data \in r.data :
                           /\ workspaces' = Renamed(workspaces, workspace_data)
                           /\ Renamed(workspaces', workspace_data) = workspaces'
                 /\ r.op # "update_task" => tasks' = tasks
                 /\ r.op \notin {"update_project", "update_project_endpoint"} =>
                       projects' = projects
                 /\ r.op # "update_workspace" => workspaces' = workspaces
        \/ /\ \A r \in Suspended : r.pc # "commit"
           /\ UNCHANGED <<tasks, projects, workspaces>>
      ]_vars

\* the entry of project p in a user's task statistics
StatisticsOf(p) ==
    [project_id |-> p,
     total_tasks |-> Cardinality(TasksOf(p)),
     open_tasks |-> Cardinality({x \in TasksOf(p) : x.status = "TaskStatus.OPEN"}),
     in_progress_tasks |->
         Cardinality({x \in TasksOf(p) : x.status = "TaskStatus.IN_PROGRESS"}),
     completed_tasks |-> Cardinality({x \in TasksOf(p) : x.status = "TaskStatus.DONE"})]

\* C19: get_user_task_statistics(U) returns one entry for every project that
\* U has a membership row in and that has tasks, with the project's task
\* count and its counts of OPEN, IN_PROGRESS and DONE tasks, and no entry
\* for any other project.
C19_Statistics ==
    last.op = "get_user_task_statistics" =>
        /\ last.exc = ""
        /\ last.result = {StatisticsOf(p) :
                             p \in {q \in ProjectIds :
                                       /\ RowCount(q, last.caller) > 0
                                       /\ TasksOf(q) # {}}}

(***************************************************************************)
(* Properties of the user table (AuthSpec).                                *)
(***************************************************************************)
\* C20: no two users ever share an email, and a registration with an email
\* that belongs to a user is refused as a duplicate: the insert fails on the
\* unique index and is rolled back, the answer is 400 for the conflict, no
\* tokens are made and the user table is as it was.
C20_EmailUnique ==
    [][/\ \A a, b \in users' : a.email = b.email => a.id = b.id
       /\ last'.op = "register" =>
            \A r \in last'.result :
                (\E x \in users : x.email = r.email) =>
                    /\ last'.status = HTTP_400_BAD_REQUEST
                    /\ r.cause = IntegrityError
                    /\ r.tokens = {}
                    /\ users' = users
      ]_vars

\* C21: a registration with an email nobody holds succeeds and returns a
\* token whose sub is the id of the user it created; a login with the email
\* and password of a user returns a token whose sub is that user's id; a
\* login with an unknown email or a wrong password is answered with 401 and
\* returns no token.
C21_TokensIdentifyUser ==
    [][/\ last'.op = "register" =>
            \A r \in last'.result :
                (~\E x \in users : x.email = r.email) =>
                    /\ last'.status = HTTP_200_OK
                    /\ \E x \in users' : x.email = r.email /\ r.tokens = {x.id}
       /\ last'.op = "login" =>
            \A r \in last'.result :
                IF \E x \in users : /\ x.email = r.email
                                    /\ verify_password(r.cause, x.password)
                THEN /\ last'.status = HTTP_200_OK
                     /\ \E x \in users : x.email = r.email /\ r.tokens = {x.id}
                ELSE /\ last'.status = HTTP_401_UNAUTHORIZED
                     /\ r.tokens = {}
      ]_vars

\* the digest Telegram puts on a payload
TelegramHash(data) ==
    hmac_new(sha256(telegram_bot_token),
             data_check_string([k \in DOMAIN data \ {"hash"} |-> data[k]]))

\* C22: verify_telegram_data accepts a payload exactly when its hash is the
\* HMAC-SHA256, keyed by the SHA-256 of the bot token, of its other fields as
\* sorted key=value lines; POST /auth/telegram issues tokens for accepted
\* payloads and answers 400 for all others.
C22_TelegramSignature ==
    last.op = "telegram_auth" =>
        \A r \in last.result :
            /\ verify_telegram_data(r.data, telegram_bot_token)
                   <=> (r.data.hash = TelegramHash(r.data))
            /\ IF r.data.hash = TelegramHash(r.data)
               THEN last.status = HTTP_200_OK /\ r.tokens # {}
               ELSE last.status = HTTP_400_BAD_REQUEST /\ r.tokens = {}

\* C29: a login with a validly signed Telegram payload returns tokens for
\* exactly one user, who is a row of the user table afterwards (created by
\* the first login, found by every later one).
C29_TelegramFindOrCreate ==
    last.op = "telegram_auth" =>
        \A r \in last.result :
            r.data.hash = TelegramHash(r.data) =>
                /\ last.exc = ""
                /\ Cardinality(r.tokens) = 1
                /\ r.tokens \subseteq {x.id : x \in users}

\* C23: POST /projects/ for workspace W answers 404 and creates nothing when
\* W does not exist, answers 403 and creates nothing when W was created by
\* another user, and for the creator of W stores a project in W with the
\* supplied name and the caller as created_by.
C23_OwnerCreatesProject ==
    [][last'.op = "create_project_endpoint" =>
        \E w \in WorkspaceIds \cup {MaxWorkspaces + 1} :
            CASE ~\E x \in workspaces : x.id = w ->
                     /\ last'.status = HTTP_404_NOT_FOUND
                     /\ projects' = projects
              [] \E x \in workspaces : x.id = w /\ x.created_by # last'.caller ->
                     /\ last'.status = HTTP_403_FORBIDDEN
                     /\ projects' = projects
              [] OTHER ->
                     /\ last'.status = HTTP_201_CREATED
                     /\ \E x \in projects' \ projects :
                           /\ x.workspace_id = w
                           /\ x.created_by = last'.caller
                           /\ projects' = projects \cup {x}
      ]_vars

(***************************************************************************)
(* Properties of the workspace store (WorkspaceSpec).                      *)
(***************************************************************************)
\* the places of a list at which the workspace with key id stands
Places(listed, id) == {i \in DOMAIN listed : listed[i].id = id}

\* C24: the listing of a user's workspaces returns exactly the stored
\* workspaces whose created_by is that user: each of them stands in the list
\* once, as it is stored, so that the list of a user with n workspaces has n
\* entries, and no workspace created by another user stands in it.
C24_OwnWorkspacesListed ==
    last.op = "get_user_workspaces" =>
        /\ last.exc = ""
        /\ \A x \in workspaces :
              x.created_by = last.caller =>
                  /\ Cardinality(Places(last.result, x.id)) = 1
                  /\ \A i \in Places(last.result, x.id) : last.result[i] = x
        /\ \A i \in DOMAIN last.result :
              last.result[i] \in workspaces /\ last.result[i].created_by = last.caller
        /\ Len(last.result) = Cardinality({x \in workspaces : x.created_by = last.caller})

\* user 1 has created two workspaces and renamed one of them, user 2 has
\* created one, and the listing for user 1 has two entries
C24_Witness ==
    /\ last.op = "get_user_workspaces" /\ last.caller = 1
    /\ Len(last.result) = 2
    /\ \E i \in DOMAIN last.result : last.result[i].name = "q"
    /\ \E x \in workspaces : x.created_by = 2

(***************************************************************************)
(* Properties of workspace membership (WorkspaceUserSpec).                 *)
(***************************************************************************)
WorkspaceUserOps ==
    {"add_user_to_workspace", "list_workspace_users", "update_user_role",
     "delete_user_from_workspace"}

\* user u holds an admin row for workspace w
HoldsAdminRow(w, u) ==
    \E r \in workspace_users :
        r.workspace_id = w /\ r.user_id = u /\ r.access_level = "admin"

\* C25: every route of the workspace user router answers 403 and changes
\* nothing for a caller without an admin row for the workspace; an admin
\* adding a user who has a row gets 400 and nothing changes; an admin's
\* successful add stores exactly one new row, with level member.  Stated on
\* the steps of a request: a request answered before it is suspended is a
\* non-admin's, answered 403 with nothing changed; a request that is taken
\* on is an admin's and is never answered 403; the commit of an add refuses
\* a user who has a row, or who does not exist, with 400 and writes nothing,
\* and otherwise writes the one row, which the request then answers 201.
C25_WorkspaceAdminOnly ==
    [][ /\ (last'.op \in WorkspaceUserOps /\ reqs = EmptyBag) =>
              \A d \in last'.result :
                  /\ ~HoldsAdminRow(d.workspace_id, last'.caller)
                  /\ last'.status = HTTP_403_FORBIDDEN
                  /\ workspace_users' = workspace_users
                  /\ d.rows = {}
        /\ reqs = EmptyBag =>
              \A r \in BagToSet(reqs') :
                  r.op \in WorkspaceUserOps => HoldsAdminRow(WorkspaceOf(r), r.caller)
        /\ (last'.op \in WorkspaceUserOps /\ reqs # EmptyBag) =>
              last'.status # HTTP_403_FORBIDDEN
        /\ \A r \in Suspended :
              r.op = "add_user_to_workspace" =>
                  IF r.pc = "commit"
                  THEN IF \/ \E x \in workspace_users : /\ x.workspace_id = WorkspaceOf(r)
                                                        /\ x.user_id = r.user_id
                          \/ r.user_id \notin {x.id : x \in users}
                       THEN /\ last'.status = HTTP_400_BAD_REQUEST
                            /\ workspace_users' = workspace_users
                       ELSE /\ last' = NoOutcome
                            /\ workspace_users' = workspace_users \cup
                                   {WorkspaceUser(WorkspaceOf(r), r.user_id, "member")}
                  ELSE /\ last'.status = HTTP_201_CREATED
                       /\ workspace_users' = workspace_users
      ]_vars

\* user 1 is admin of workspace 1, the last user is a member added through
\* the route, and the member's own attempt to add somebody was refused
C25_Witness ==
    /\ last.op = "add_user_to_workspace" /\ last.caller = NumUsers
    /\ last.status = HTTP_403_FORBIDDEN
    /\ WorkspaceUser(1, 1, "admin") \in workspace_users
    /\ WorkspaceUser(1, NumUsers, "member") \in workspace_users

\* C26: every membership row, of a project or of a workspace, holds one of
\* the access levels admin, member, viewer, invited, whatever role strings
\* the callers supplied.
C26_AccessLevelsClosed ==
    /\ \A r \in project_users : r.access_level \in AccessLevels
    /\ \A r \in workspace_users : r.access_level \in AccessLevels

\* C27: update_task keeps name, description, priority, due_date, status and
\* assigned_to as stored when can_edit_content is false, keeps is_completed as
\* stored when can_update_completion is false, whatever the payload holds,
\* touches no other task, and for a task id that does not exist fails with
\* 404 and changes no task.  Stated on the steps of a call: a call for a
\* missing task is answered 404 with nothing written; the commit of a call
\* writes the row of its task only, within its flags; no other step writes.
C27_FlagsFrame ==
    [][ /\ (last'.op = "update_task" /\ ~TaskExists(last'.task_id)) =>
              /\ last'.exc = "HTTPException"
              /\ last'.status = HTTP_404_NOT_FOUND
              /\ tasks' = tasks
        /\ \A r \in Suspended :
              r.op = "update_task" =>
                  IF r.pc = "commit"
                  THEN \A call \in r.data, before \in RowById(tasks, r.task_id) :
                          /\ \E x \in tasks' : x.id = r.task_id
                          /\ tasks' \ {RowAfter(before)} = tasks \ {before}
                          /\ ~call.can_edit_content =>
                                 ContentOf(RowAfter(before)) = ContentOf(before)
                          /\ ~call.can_update_completion =>
                                 RowAfter(before).is_completed = before.is_completed
                  ELSE tasks' = tasks
        /\ Suspended = {} => tasks' = tasks
      ]_vars

\* a call with both flags false whose payload renames, reassigns and completes
\* the task has returned, and the task is as it was created
C27_Witness ==
    /\ last.op = "update_task" /\ last.task_id = 1 /\ last.exc # "HTTPException"
    /\ \E call \in last.result :
          /\ ~call.can_edit_content /\ ~call.can_update_completion
          /\ call.name = "u" /\ call.assigned_to = 1 /\ call.status = "DONE"
          /\ call.is_completed = <<TRUE>>
    /\ tasks = {Task(1, "t", NoneStr, OPEN, NONE, NoneId, 1, NoneId, 1, NoneId)}

\* C28: every task with a parent belongs to the parent's project; a member of
\* one project cannot create a task there under a task of another project.
C28_SubtaskInParentProject ==
    \A x \in tasks :
        x.parent_task_id # NoneId =>
            \A parent \in tasks :
                parent.id = x.parent_task_id => parent.project_id = x.project_id

\* C30: an invite sent for a project id or a user id that does not exist is
\* answered 404 and creates no row; every row with level invited refers to
\* an existing project and an existing user.
C30_InviteTargetsExist ==
    /\ (last.op = "send_invite"
           /\ (~ProjectExists(last.project_id) \/ last.user_id \notin UserIds)) =>
          /\ last.exc = "HTTPException"
          /\ last.status = HTTP_404_NOT_FOUND
    /\ \A r \in project_users :
          r.access_level = "invited" =>
              ProjectExists(r.project_id) /\ r.user_id \in UserIds
====
